---- MODULE Spec2Model ----
(***************************************************************************)
(* A model of ush's batch executors: exec.Exec (the local worker pool),    *)
(* exec.JumpExec (the fan-out over jump hosts), and the writers and        *)
(* validators they are built from.                                         *)
(*                                                                         *)
(* Go strings and byte slices are TLA+ strings, read with Len, SubSeq and   *)
(* \o, so that replacing, splitting, truncating and formatting are         *)
(* computed and not assumed.                                               *)
(***************************************************************************)
EXTENDS Integers, Sequences, FiniteSets, TLC

\* ------------------------------------------------------------------ bounds

\* The largest Spec.Parallel a valid run is started with.
MaxParallel == 2
\* The longest stream of targets the producer sends.
MaxTargets == 2
\* The largest Limit of a lossyWriter.
MaxLimit == 3
\* The longest byte slice given to one Write.
MaxChunk == 2
\* The most bytes written to one lossyWriter.
MaxInput == 5
\* The most Write calls made on the synchronizedWriters.
MaxWrites == 2
\* The largest number of jump hosts.
MaxHosts == 2
\* The longest stream of targets sent to a run of JumpExec.
MaxJumpTargets == 1
\* The largest Spec.Parallel the argv of a jump host is built for.
MaxJumpParallel == 5

\* How many times the clocks advance during one runCmd.
MaxTicks == 3
\* The most lines in the input of Read.
MaxLines == 2
\* The most documents in the input of freq's Read.
MaxResults == 3

\* ----------------------------------------------------------------- helpers

Min(a, b) == IF a <= b THEN a ELSE b

Max(a, b) == IF a >= b THEN a ELSE b

\* How many elements of sequence s satisfy being equal to x.
Count(s, x) == Cardinality({i \in 1..Len(s) : s[i] = x})

\* ------------------------------------------------------------- validation

\* The error values; NoErr is Go's nil error.
NoErr == "nil"

ErrNoCommand == "command not set"

ErrNoTimeout == "timeout must be greater than zero"

ErrNoParallel == "parallel must be greater than zero"

ErrNoStdoutBytes == "stdout_bytes must be greater than zero"

ErrNoStderrBytes == "stderr_bytes must be greater than zero"

ErrNoJumpCommand == "jump command not set"

ErrNoJumpHosts == "no jump hosts available"

\* ctx.Err() of a scope that tripped.
ErrCanceled == "context canceled"

\* A Validate that tests the byte limits in the other order.
SpecValidateSwapped(s) ==
    CASE s.Command = "" -> ErrNoCommand
      [] s.Timeout <= 0 -> ErrNoTimeout
      [] s.Parallel <= 0 -> ErrNoParallel
      [] s.StderrBytes <= 0 -> ErrNoStderrBytes
      [] s.StdoutBytes <= 0 -> ErrNoStdoutBytes
      [] OTHER -> NoErr

\* Spec.Validate: the first unmet requirement, in the order of the switch.
SpecValidate(s) ==
    CASE s.Command = "" -> ErrNoCommand
      [] s.Timeout <= 0 -> ErrNoTimeout
      [] s.Parallel <= 0 -> ErrNoParallel
      [] s.StdoutBytes <= 0 -> ErrNoStdoutBytes
      [] s.StderrBytes <= 0 -> ErrNoStderrBytes
      [] OTHER -> NoErr

\* JumpSpec.Validate: the embedded Spec first, then the jump fields.
JumpSpecValidate(s) ==
    IF SpecValidate(s) # NoErr THEN SpecValidate(s)
    ELSE CASE s.JumpCommand = "" -> ErrNoJumpCommand
           [] Len(s.JumpHosts) = 0 -> ErrNoJumpHosts
           [] OTHER -> NoErr

\* ------------------------------------------------------------ lossyWriter

\* A Write that stores the whole slice when it straddles the limit.
LossyWriteNoSplit(limit, buffer, p) ==
    IF Len(buffer) >= limit
      THEN [Buffer |-> buffer, n |-> Len(p)]
      ELSE LET b == buffer \o p
           IN  [Buffer |-> IF Len(b) >= limit THEN b \o "[...]" ELSE b,
                n |-> Len(p)]

\* lossyWriter.Write(p) on a writer with Limit limit whose Buffer holds
\* buffer: the Buffer afterwards and the count returned.
LossyWrite(limit, buffer, p) ==
    LET writeSize == Len(p)
        bufferSize == Len(buffer)
        lim == IF bufferSize + writeSize > limit
                 THEN limit - bufferSize ELSE writeSize
        b == buffer \o SubSeq(p, 1, lim)
    IN  IF bufferSize >= limit
          THEN [Buffer |-> buffer, n |-> writeSize]
          ELSE [Buffer |-> IF Len(b) = limit THEN b \o "[...]" ELSE b,
                n |-> writeSize]

\* ----------------------------------------------------- synchronizedWriter

\* A byte of a synchronizedWriter's stream: its value c and, for the claims,
\* the sink s it was written to.
NL == "\n"

\* bytes.Index(p, "\n"), counted from 1; 0 when p holds no newline.
IndexNL(p) ==
    IF \E i \in 1..Len(p) : p[i].c = NL
      THEN CHOOSE i \in 1..Len(p) :
               /\ p[i].c = NL
               /\ \A j \in 1..(i - 1) : p[j].c # NL
      ELSE 0

\* synchronizedWriter.Write(p) on a sink whose buffer holds b:
\* emit is what io.Copy hands to the shared Writer under the mutex (copy says
\* whether it is called at all), buf the buffer afterwards.
SyncWrite(b, p) ==
    LET idx == IndexNL(p)
    IN  CASE idx = 0 -> [copy |-> FALSE, emit |-> <<>>, buf |-> b \o p]
          [] idx = 1 -> [copy |-> FALSE, emit |-> <<>>, buf |-> b]
          [] OTHER -> [copy |-> TRUE,
                       emit |-> b \o SubSeq(p, 1, idx - 1),
                       buf |-> SubSeq(p, idx, Len(p))]

\* ------------------------------------------------------- JumpExec's argv

\* The decimal digits.
Digits == "0123456789"

RECURSIVE Itoa(_)
\* strconv.Itoa(n).
Itoa(n) ==
    IF n < 0 THEN "-" \o Itoa(0 - n)
    ELSE IF n < 10 THEN SubSeq(Digits, n + 1, n + 1)
    ELSE Itoa(n \div 10) \o SubSeq(Digits, (n % 10) + 1, (n % 10) + 1)

\* time.Duration.String() of a duration of d whole seconds, d > 0.
DurationString(d) ==
    LET h == d \div 3600
        m == (d % 3600) \div 60
        sec == d % 60
    IN  IF h > 0 THEN Itoa(h) \o "h" \o Itoa(m) \o "m" \o Itoa(sec) \o "s"
        ELSE IF m > 0 THEN Itoa(m) \o "m" \o Itoa(sec) \o "s"
        ELSE Itoa(sec) \o "s"

\* The value of a decimal digit.
DigitVal(c) == CHOOSE v \in 0..9 : SubSeq(Digits, v + 1, v + 1) = c

RECURSIVE ParseUnits(_, _, _)
\* The seconds in a sequence of <number><unit> groups with units h, m and s;
\* acc is the number being read and total the seconds of the groups read.
ParseUnits(s, acc, total) ==
    IF Len(s) = 0 THEN total
    ELSE LET c == SubSeq(s, 1, 1)
             r == SubSeq(s, 2, Len(s))
         IN  IF c = "h" THEN ParseUnits(r, 0, total + acc * 3600)
             ELSE IF c = "m" THEN ParseUnits(r, 0, total + acc * 60)
             ELSE IF c = "s" THEN ParseUnits(r, 0, total + acc)
             ELSE ParseUnits(r, acc * 10 + DigitVal(c), total)

\* time.ParseDuration(s) in whole seconds: the duration that a textual
\* duration reads back as, and 0 for the empty text.
ParseDuration(s) ==
    IF Len(s) > 0 /\ SubSeq(s, 1, 1) = "-"
        THEN 0 - ParseUnits(SubSeq(s, 2, Len(s)), 0, 0)
        ELSE ParseUnits(s, 0, 0)

RECURSIVE Atoi(_)
\* strconv.Atoi(s) of a decimal number with an optional minus sign.
Atoi(s) ==
    IF Len(s) = 0 THEN 0
    ELSE IF SubSeq(s, 1, 1) = "-" THEN 0 - Atoi(SubSeq(s, 2, Len(s)))
    ELSE Atoi(SubSeq(s, 1, Len(s) - 1)) * 10 + DigitVal(SubSeq(s, Len(s), Len(s)))

RECURSIVE Replace(_, _, _)
\* strings.Replace(s, old, new, -1) for a non-empty old.
Replace(s, old, new) ==
    IF Len(s) < Len(old) THEN s
    ELSE IF SubSeq(s, 1, Len(old)) = old
      THEN new \o Replace(SubSeq(s, Len(old) + 1, Len(s)), old, new)
    ELSE SubSeq(s, 1, 1) \o Replace(SubSeq(s, 2, Len(s)), old, new)

RECURSIVE Split(_, _)
\* strings.Split(s, sep) for a one-byte sep: an empty token between two
\* separators next to each other, and <<"">> for the empty string.
Split(s, sep) ==
    IF \E i \in 1..Len(s) : SubSeq(s, i, i) = sep
      THEN LET i == CHOOSE k \in 1..Len(s) :
                        /\ SubSeq(s, k, k) = sep
                        /\ \A j \in 1..(k - 1) : SubSeq(s, j, j) # sep
           IN  <<SubSeq(s, 1, i - 1)>> \o Split(SubSeq(s, i + 1, Len(s)), sep)
      ELSE <<s>>

\* A JumpExec that passes --parallel the undivided Spec.Parallel.
JumpParallelUndivided(s) == s.Parallel

\* JumpExec: the parallelism given to each jump host.
JumpParallel(s) ==
    LET parallel == s.Parallel \div Len(s.JumpHosts)
    IN  IF parallel = 0 THEN 1 ELSE parallel

\* A JumpExec that passes the byte limits in the other order.
JumpArgvSwapped(s, host, parallel) ==
    Split(Replace(s.JumpCommand, "{.J}", host), " ")
        \o << "--", "ush", "exec",
               "--timeout=" \o DurationString(s.Timeout),
               "--parallel=" \o Itoa(parallel),
               "--stderr_bytes=" \o Itoa(s.StderrBytes),
               "--stdout_bytes=" \o Itoa(s.StdoutBytes),
               "--", s.Command >>
        \o s.Args

\* JumpExec: the argv (program, then args) of the process started for host.
JumpArgv(s, host, parallel) ==
    Split(Replace(s.JumpCommand, "{.J}", host), " ")
        \o << "--", "ush", "exec",
               "--timeout=" \o DurationString(s.Timeout),
               "--parallel=" \o Itoa(parallel),
               "--stdout_bytes=" \o Itoa(s.StdoutBytes),
               "--stderr_bytes=" \o Itoa(s.StderrBytes),
               "--", s.Command >>
        \o s.Args

\* ------------------------------------------------------------------ state

VARIABLES
    mode,        \* "exec" or "jump": which executor cmd/exec.go runs
    spec,        \* the JumpSpec of the run (Exec is given its embedded Spec)
    stream,      \* the targets the producer sends, in order
    pending,     \* the targets of stream not yet received from the channel;
                 \* once the channel is closed they are never delivered
    chanClosed,  \* the targets channel has been closed
    cancelled,   \* the caller's cancellation scope has tripped
    pc,          \* the entry point: "init", "running", "returned"
    ret,         \* the error the entry point returned, "none" before it returns
    gerr,        \* errgroup: the first non-nil error a task returned
    out,         \* Exec: the result records encoded to w, in order
    wpc,         \* worker: "off", "select", "run", "wait", "ran", "encode", "returned"
    cur,         \* worker: the target it received, None between targets
    proc,        \* worker: oscmd's process "none", "running", "exit0", "exit1", "killed", "reaped"
    watcher,     \* worker: the kill watcher "none", "wait", "kill", "done"
    shouldKill,  \* worker: runCmd's shouldKill flag
    res,         \* worker: the error and exit status runCmd put in its Result
    lwLimit,     \* lossyWriter: Limit
    lwBuf,       \* lossyWriter: the bytes of Buffer
    lwIn,        \* lossyWriter: all the bytes given to Write so far
    lwRet,       \* lossyWriter: the count the last Write returned
    lwLast,      \* lossyWriter: the length of the slice given to the last Write
    sbuf,        \* sink: the bytes of its buffer b
    spc,         \* sink: "idle", "lock" (Write before Lock), "copy" (Write
                 \* holding the mutex), "flock", "fcopy" (the same in Flush),
                 \* "flushed"
    srest,       \* sink: p[idx:] of the Write in progress
    snum,        \* the number of Write calls made on the sinks
    sin,         \* sink: all the bytes given to its Write so far
    mu,          \* the shared mutex: the sink holding it, 0 when free
    tmpl,        \* the jump command as tokens of pieces, before rendering
    parallel,    \* JumpExec: the parallelism computed for the jump hosts
    argv,        \* JumpExec: per host, the argv of its remote shell
    hi,          \* JumpExec: the index of the host its loop is at, 0 before
    agent,       \* host: its ssh-agent "none", "running", "killed"
    shell,       \* host: its remote shell "none", "running", "exit0", "exit1",
                 \* "killed", "reaped"
    copier,      \* host: os/exec's copy of the pipe to the shell's stdin
                 \* "off", "reading", "done"
    disp,        \* host: its dispatcher "off", "select", "write", "returned"
    dcur,        \* host: the target its dispatcher is writing, None otherwise
    inbox,       \* host: the lines its shell has been sent and not answered
    wrote,       \* host: the lines its dispatcher's writes to the pipe completed
    werr,        \* host: the error oscmd.Wait gave its waiter, NoErr before
    waiter,      \* host: the task that waits for its shell "off", "wait", "returned"
    rtarget,     \* runCmd: the target it is called with
    rargv,       \* runCmd: the argv given to exec.Command, <<>> before
    clock,       \* the system's clocks: [wall, mono], in whole seconds
    nticks,      \* how many times the clocks have advanced
    tpc,         \* runCmd's timing: "off", "entry", "created", "running",
                 \* "waited", "done"
    tstart,      \* res.StartTime, a time.Time: [wall, mono]
    tend,        \* res.EndTime
    tdur,        \* res.Duration, "" before it is set
    tspawn,      \* the monotonic instant the process was started, None before
    treap,       \* the monotonic instant the process was waited for, None before
    rin,         \* Read: the bytes its reader holds
    rexcl,       \* Read: the exclusion set
    rrest,       \* Read: the bytes its scanner has not consumed
    rpc,         \* Read's goroutine: "off", "scan", "send", "closed"
    rt,          \* Read: the line it is sending
    rdeliv,      \* the lines received from Read's channel, in order
    ain,         \* sshAgent: the writes its agent has yet to make to stdout
    abuf,        \* sshAgentStdout.b
    adone,       \* sshAgentStdout.done
    achan,       \* the authsock channel (one slot): <<>> or <<path>>
    asent,       \* how many paths have been sent on authsock
    awret,       \* what the last Write returned: [n, err]
    acopy,       \* os/exec's copy of the agent's stdout into the parser:
                 \* "off", "copying", "ended", "failed", "blocked", "panic"
    aproc,       \* the agent process: "none", "running", "exited", "killed"
    aperr,       \* the procErr channel: <<>> or <<the error of cmd.Wait>>
    apc,         \* sshAgent: "off", "start", "spawned", "parked", "returned"
    aret,        \* what sshAgent returned: [cmd, sock, err]
    lsrc,        \* newLogWriter: the Writes made on pw, one byte slice each
    lnext,       \* the index in lsrc of the next Write
    lpend,       \* the bytes of the Write in progress that pr has not read
    lw,          \* the writing side: "off", "idle", "writing", "failed"
    lsbuf,       \* the bytes in the scanner's buffer
    lscan,       \* the scanning goroutine: "off", "scanning", "toolong", "ended"
    lclosed,     \* pr.Close() was called
    lerr,        \* what was printed to os.Stderr, one Fprintf each
    eleft,       \* Exec's encoder: the results each worker has yet to encode
    epc,         \* each worker: "off", "loop", "write" (inside w.Write)
    ebuf,        \* the bytes of its record a worker inside w.Write has yet to copy
    eout,        \* the bytes that reached w
    fmode,       \* freq: "Stdout", "Stderr", "ExitStatus" or "Duration"
    ftrunc,      \* the truncate of Duration, in seconds
    fin,         \* the documents of src: results, and ones that do not decode
    fpos,        \* the number of results decoded (results)
    ferr,        \* err of Read
    fm,          \* the map m: the targets of each key
    fitems,      \* the items Read returned
    fpc          \* Read: "off", "read", "returned"

topVars == <<mode, spec, stream, pending, chanClosed, cancelled, pc, ret, gerr, out>>

workerVars == <<wpc, cur, proc, watcher, shouldKill, res>>

lossyVars == <<lwLimit, lwBuf, lwIn, lwRet, lwLast>>

syncVars == <<sbuf, spc, srest, snum, sin, mu>>

argvVars == <<tmpl, parallel, argv>>

jumpVars == <<hi, agent, shell, copier, disp, dcur, inbox, wrote, werr, waiter>>

runVars == <<rtarget, rargv>>

\* The variables of the parts modelled on their own.
timeVars == <<clock, nticks, tpc, tstart, tend, tdur, tspawn, treap>>

readVars == <<rin, rexcl, rrest, rpc, rt, rdeliv>>

agentVars == <<ain, abuf, adone, achan, asent, awret, acopy, aproc, aperr, apc, aret>>

logVars == <<lsrc, lnext, lpend, lw, lsbuf, lscan, lclosed, lerr>>

encVars == <<eleft, epc, ebuf, eout>>

freqVars == <<fmode, ftrunc, fin, fpos, ferr, fm, fitems, fpc>>

moreVars == <<logVars, encVars, freqVars>>

extraVars == <<runVars, timeVars, readVars, agentVars, moreVars>>

vars == <<topVars, workerVars, lossyVars, syncVars, argvVars, jumpVars, extraVars>>

\* What the steps of Exec leave alone.
notExecVars == <<lossyVars, syncVars, argvVars, jumpVars, extraVars>>

\* ------------------------------------------------------------ the inputs

\* The stream of n targets: the i-th line of the input is target i. Exec and
\* JumpExec never look into a target, so distinct targets show every drop and
\* every duplicate.
TargetStream(n) == [i \in 1..n |-> i]

\* No target: cur of a worker between two targets.
None == 0

\* A Spec every requirement of which is met, with Parallel p.
ValidSpec(p) ==
    [Command |-> "echo", Args |-> <<"{.T}">>, Timeout |-> 1, Parallel |-> p,
     StdoutBytes |-> 1, StderrBytes |-> 1,
     JumpHostsKeyFile |-> "", JumpCommand |-> "", JumpHosts |-> <<>>]

\* Specs that fail one requirement each.
InvalidSpecs ==
    { [ValidSpec(1) EXCEPT !.Command = ""],
      [ValidSpec(1) EXCEPT !.Timeout = 0],
      [ValidSpec(1) EXCEPT !.Parallel = 0],
      [ValidSpec(1) EXCEPT !.StdoutBytes = 0],
      [ValidSpec(1) EXCEPT !.StderrBytes = -1] }

\* The Specs Exec is called with.
ExecSpecs == {ValidSpec(p) : p \in 1..MaxParallel} \cup InvalidSpecs

\* ------------------------------------------------------------------- Exec

\* An Exec whose loop starts one worker too many.
NumWorkersOffByOne(s) == s.Parallel + 1

\* Exec: the number of g.Go calls of the loop.
NumWorkers(s) == s.Parallel

\* The slots for workers; the last one is used only by a loop that overruns.
Workers == 1..(MaxParallel + 1)

\* The errgroup's derived scope is done: the caller's scope tripped, a task
\* returned an error, or Wait returned.
GroupDone == cancelled \/ gerr # NoErr \/ pc = "returned"

\* The targets received from the channel so far, in order.
Received == SubSeq(stream, 1, Len(stream) - Len(pending))

\* The state of the workers before Exec starts them.
WorkersIdle ==
    /\ wpc = [w \in Workers |-> "off"]
    /\ cur = [w \in Workers |-> None]
    /\ proc = [w \in Workers |-> "none"]
    /\ watcher = [w \in Workers |-> "none"]
    /\ shouldKill = [w \in Workers |-> 0]
    /\ res = [w \in Workers |-> [err |-> "", status |-> 0]]

\* No lossyWriter is in use.
LossyIdle ==
    /\ lwLimit = 0 /\ lwBuf = "" /\ lwIn = "" /\ lwRet = 0 /\ lwLast = 0

\* The sinks, when there are some.
Sinks == 1..MaxHosts

\* The sinks before their first Write.
SyncIdle ==
    /\ sbuf = [k \in Sinks |-> <<>>]
    /\ spc = [k \in Sinks |-> "idle"]
    /\ srest = [k \in Sinks |-> <<>>]
    /\ snum = 0
    /\ sin = [k \in Sinks |-> <<>>]
    /\ mu = 0

\* No argv has been built.
ArgvIdle ==
    /\ tmpl = <<>> /\ parallel = 0 /\ argv = [h \in 1..MaxHosts |-> <<>>]

\* JumpExec has not started anything.
JumpIdle ==
    /\ hi = 0
    /\ agent = [h \in 1..MaxHosts |-> "none"]
    /\ shell = [h \in 1..MaxHosts |-> "none"]
    /\ copier = [h \in 1..MaxHosts |-> "off"]
    /\ disp = [h \in 1..MaxHosts |-> "off"]
    /\ dcur = [h \in 1..MaxHosts |-> None]
    /\ inbox = [h \in 1..MaxHosts |-> <<>>]
    /\ wrote = [h \in 1..MaxHosts |-> <<>>]
    /\ werr = [h \in 1..MaxHosts |-> NoErr]
    /\ waiter = [h \in 1..MaxHosts |-> "off"]

\* runCmd has not been called.
RunIdle == rtarget = "" /\ rargv = <<>>

\* The zero time.Time.
ZeroTime == [wall |-> 0, mono |-> 0]

TimeIdle ==
    /\ clock = ZeroTime /\ nticks = 0 /\ tpc = "off"
    /\ tstart = ZeroTime /\ tend = ZeroTime /\ tdur = ""
    /\ tspawn = None /\ treap = None

ReadIdle ==
    /\ rin = "" /\ rexcl = {} /\ rrest = "" /\ rpc = "off"
    /\ rt = "" /\ rdeliv = <<>>

AgentIdle ==
    /\ ain = <<>> /\ abuf = "" /\ adone = FALSE /\ achan = <<>> /\ asent = 0
    /\ awret = [n |-> 0, err |-> NoErr] /\ acopy = "off" /\ aproc = "none"
    /\ aperr = <<>> /\ apc = "off"
    /\ aret = [cmd |-> FALSE, sock |-> "", err |-> NoErr]

LogIdle ==
    /\ lsrc = <<>> /\ lnext = 1 /\ lpend = "" /\ lw = "off" /\ lsbuf = ""
    /\ lscan = "off" /\ lclosed = FALSE /\ lerr = <<>>

EncIdle ==
    /\ eleft = [w \in 1..MaxParallel |-> 0]
    /\ epc = [w \in 1..MaxParallel |-> "off"]
    /\ ebuf = [w \in 1..MaxParallel |-> ""]
    /\ eout = ""

FreqIdle ==
    /\ fmode = "" /\ ftrunc = 0 /\ fin = <<>> /\ fpos = 0 /\ ferr = NoErr
    /\ fm = <<>> /\ fitems = <<>> /\ fpc = "off"

MoreIdle == LogIdle /\ EncIdle /\ FreqIdle

\* None of the parts modelled on their own is in use.
ExtraIdle == RunIdle /\ TimeIdle /\ ReadIdle /\ AgentIdle /\ MoreIdle

\* The state cmd/exec.go calls Exec in.
ExecInit ==
    /\ mode = "exec"
    /\ spec \in ExecSpecs
    /\ stream \in {TargetStream(n) : n \in 0..MaxTargets}
    /\ pending = stream
    /\ chanClosed = FALSE
    /\ cancelled = FALSE
    /\ pc = "init"
    /\ ret = "none"
    /\ gerr = NoErr
    /\ out = <<>>
    /\ WorkersIdle
    /\ LossyIdle /\ SyncIdle /\ ArgvIdle /\ JumpIdle /\ ExtraIdle

\* An Exec that starts its workers before it looks at the result of Validate.
ExecStartThenValidate ==
    /\ mode = "exec" /\ pc = "init"
    /\ wpc' = [w \in Workers |-> IF w <= NumWorkers(spec) THEN "select" ELSE "off"]
    /\ IF SpecValidate(spec) # NoErr
         THEN pc' = "returned" /\ ret' = SpecValidate(spec)
         ELSE pc' = "running" /\ UNCHANGED ret
    /\ UNCHANGED <<mode, spec, stream, pending, chanClosed, cancelled, gerr, out>>
    /\ UNCHANGED <<cur, proc, watcher, shouldKill, res>>
    /\ UNCHANGED notExecVars

\* Exec, to the end of its loop of g.Go: validation, then Parallel workers.
ExecStart ==
    /\ mode = "exec" /\ pc = "init"
    /\ IF SpecValidate(spec) # NoErr
         THEN /\ pc' = "returned"
              /\ ret' = SpecValidate(spec)
              /\ UNCHANGED wpc
         ELSE /\ pc' = "running"
              /\ wpc' = [w \in Workers |->
                            IF w <= NumWorkers(spec) THEN "select" ELSE "off"]
              /\ UNCHANGED ret
    /\ UNCHANGED <<mode, spec, stream, pending, chanClosed, cancelled, gerr, out>>
    /\ UNCHANGED <<cur, proc, watcher, shouldKill, res>>
    /\ UNCHANGED notExecVars

\* A worker's select takes ctx.Done(): it returns ctx.Err().
WorkerDone(w) ==
    /\ mode = "exec" /\ wpc[w] = "select" /\ GroupDone
    /\ wpc' = [wpc EXCEPT ![w] = "returned"]
    /\ gerr' = IF gerr = NoErr THEN ErrCanceled ELSE gerr
    /\ UNCHANGED <<mode, spec, stream, pending, chanClosed, cancelled, pc, ret, out>>
    /\ UNCHANGED <<cur, proc, watcher, shouldKill, res>>
    /\ UNCHANGED notExecVars

\* A worker's select receives a target, and runCmd runs to the call of
\* oscmd.Run: the child scope with its deadline, shouldKill and the watcher.
WorkerRecv(w) ==
    /\ mode = "exec" /\ wpc[w] = "select" /\ pending # <<>> /\ ~chanClosed
    /\ cur' = [cur EXCEPT ![w] = Head(pending)]
    /\ pending' = Tail(pending)
    /\ wpc' = [wpc EXCEPT ![w] = "run"]
    /\ proc' = [proc EXCEPT ![w] = "none"]
    /\ shouldKill' = [shouldKill EXCEPT ![w] = 1]
    /\ watcher' = [watcher EXCEPT ![w] = "wait"]
    /\ res' = [res EXCEPT ![w] = [err |-> "", status |-> 0]]
    /\ UNCHANGED <<mode, spec, stream, chanClosed, cancelled, pc, ret, gerr, out>>
    /\ UNCHANGED notExecVars

\* A worker's select finds the channel closed: it returns nil.
WorkerClosed(w) ==
    /\ mode = "exec" /\ wpc[w] = "select" /\ chanClosed
    /\ wpc' = [wpc EXCEPT ![w] = "returned"]
    /\ UNCHANGED topVars
    /\ UNCHANGED <<cur, proc, watcher, shouldKill, res>>
    /\ UNCHANGED notExecVars

\* oscmd.Run starts the process (oscmd.Process is set), or fails to.
RunStart(w) ==
    /\ wpc[w] = "run"
    /\ \/ /\ proc' = [proc EXCEPT ![w] = "running"]
          /\ wpc' = [wpc EXCEPT ![w] = "wait"]
          /\ UNCHANGED res
       \/ /\ res' = [res EXCEPT ![w] = [err |-> "spawn failed", status |-> 0]]
          /\ wpc' = [wpc EXCEPT ![w] = "ran"]
          /\ UNCHANGED proc
    /\ UNCHANGED topVars
    /\ UNCHANGED <<cur, watcher, shouldKill>>
    /\ UNCHANGED notExecVars

\* The child process exits by itself with the given status.
ProcExit(w, code) ==
    /\ proc[w] = "running"
    /\ proc' = [proc EXCEPT ![w] = IF code = 0 THEN "exit0" ELSE "exit1"]
    /\ UNCHANGED topVars
    /\ UNCHANGED <<wpc, cur, watcher, shouldKill, res>>
    /\ UNCHANGED notExecVars

\* A runCmd that leaves ExitStatus alone.
WaitResultNoStatus(p) ==
    CASE p = "exit0" -> [err |-> "", status |-> 0]
      [] p = "exit1" -> [err |-> "exit status 1", status |-> 0]
      [] OTHER -> [err |-> "signal: killed", status |-> 0]

\* The error text and exit status runCmd takes from the error of oscmd.Run.
WaitResult(p) ==
    CASE p = "exit0" -> [err |-> "", status |-> 0]
      [] p = "exit1" -> [err |-> "exit status 1", status |-> 1]
      [] OTHER -> [err |-> "signal: killed", status |-> -1]

\* oscmd.Run returns: the process has ended and is waited for (reaped).
RunWait(w) ==
    /\ wpc[w] = "wait" /\ proc[w] \in {"exit0", "exit1", "killed"}
    /\ res' = [res EXCEPT ![w] = WaitResult(proc[w])]
    /\ proc' = [proc EXCEPT ![w] = "reaped"]
    /\ wpc' = [wpc EXCEPT ![w] = "ran"]
    /\ UNCHANGED topVars
    /\ UNCHANGED <<cur, watcher, shouldKill>>
    /\ UNCHANGED notExecVars

\* runCmd from atomic.AddInt64(&shouldKill, -1) to its return, where the
\* deferred cancel() ends the child scope. A watcher that has not yet loaded
\* shouldKill will find 0 and do nothing. One that has already decided to
\* kill is in state "kill" while the process is reaped (wpc = "ran"); the
\* signal it sends after runCmd has returned goes to the same reaped pid and
\* changes nothing of this state, so the watcher is not followed further.
\* The locals of runCmd are gone, except the Result it returns.
Disarm(w) ==
    /\ wpc[w] = "ran"
    /\ shouldKill' = [shouldKill EXCEPT ![w] = shouldKill[w] - 1]
    /\ watcher' = [watcher EXCEPT ![w] = "none"]
    /\ proc' = [proc EXCEPT ![w] = "none"]
    /\ wpc' = [wpc EXCEPT ![w] = "encode"]
    /\ UNCHANGED topVars
    /\ UNCHANGED <<cur, res>>
    /\ UNCHANGED notExecVars

\* A worker that, after writing the record of a failed run, returns the
\* failure as its error.
EncodeThenFail(w) ==
    /\ wpc[w] = "encode"
    /\ out' = Append(out, [target |-> cur[w], err |-> res[w].err,
                           status |-> res[w].status])
    /\ cur' = [cur EXCEPT ![w] = None]
    /\ wpc' = [wpc EXCEPT ![w] = IF res[w].err = "" THEN "select" ELSE "returned"]
    /\ gerr' = IF res[w].err # "" /\ gerr = NoErr THEN res[w].err ELSE gerr
    /\ res' = [res EXCEPT ![w] = [err |-> "", status |-> 0]]
    /\ UNCHANGED <<mode, spec, stream, pending, chanClosed, cancelled, pc, ret>>
    /\ UNCHANGED <<proc, watcher, shouldKill>>
    /\ UNCHANGED notExecVars

\* An Encode that writes the record of a successful run only.
EncodeSuccessOnly(w) ==
    /\ wpc[w] = "encode"
    /\ out' = IF res[w].err = ""
                THEN Append(out, [target |-> cur[w], err |-> res[w].err,
                                  status |-> res[w].status])
                ELSE out
    /\ cur' = [cur EXCEPT ![w] = None]
    /\ wpc' = [wpc EXCEPT ![w] = "select"]
    /\ res' = [res EXCEPT ![w] = [err |-> "", status |-> 0]]
    /\ UNCHANGED <<mode, spec, stream, pending, chanClosed, cancelled, pc, ret, gerr>>
    /\ UNCHANGED <<proc, watcher, shouldKill>>
    /\ UNCHANGED notExecVars

\* encoder.Encode(result): one record is written to w, and the worker is
\* back at its select.
Encode(w) ==
    /\ wpc[w] = "encode"
    /\ out' = Append(out, [target |-> cur[w], err |-> res[w].err,
                           status |-> res[w].status])
    /\ cur' = [cur EXCEPT ![w] = None]
    /\ wpc' = [wpc EXCEPT ![w] = "select"]
    /\ res' = [res EXCEPT ![w] = [err |-> "", status |-> 0]]
    /\ UNCHANGED <<mode, spec, stream, pending, chanClosed, cancelled, pc, ret, gerr>>
    /\ UNCHANGED <<proc, watcher, shouldKill>>
    /\ UNCHANGED notExecVars

\* What the watcher goroutine does once <-ctx.Done() returns: it tests
\* shouldKill == 1 && oscmd.Process != nil, and goes on to kill or ends.
WatcherCheck(w) ==
    /\ watcher' = [watcher EXCEPT ![w] =
                      IF shouldKill[w] = 1 /\ proc[w] # "none"
                        THEN "kill" ELSE "done"]
    /\ UNCHANGED topVars
    /\ UNCHANGED <<wpc, cur, proc, shouldKill, res>>
    /\ UNCHANGED notExecVars

\* The deadline of context.WithTimeout(ctx, s.Timeout) passes and wakes the
\* watcher. Only the watcher reads the child scope (oscmd is made by
\* exec.Command, without the scope), so the deadline passing and the watcher
\* waking are one step; a Timeout > 0 may end at any moment of runCmd.
WatcherTimeout(w) ==
    /\ watcher[w] = "wait" /\ ~GroupDone
    /\ WatcherCheck(w)

\* The scope of the errgroup is done, which ends the child scope and wakes
\* the watcher.
WatcherCancel(w) ==
    /\ watcher[w] = "wait" /\ GroupDone
    /\ WatcherCheck(w)

\* The watcher goroutine calls syscall.Kill(-pid, SIGKILL): a running
\* process dies; one that has exited, or has been reaped, is not changed.
WatcherKill(w) ==
    /\ watcher[w] = "kill"
    /\ proc' = [proc EXCEPT ![w] = IF proc[w] = "running" THEN "killed" ELSE proc[w]]
    /\ watcher' = [watcher EXCEPT ![w] = "done"]
    /\ UNCHANGED topVars
    /\ UNCHANGED <<wpc, cur, shouldKill, res>>
    /\ UNCHANGED notExecVars

\* An Exec that returns as soon as one worker has returned.
ExecReturnEarly ==
    /\ mode = "exec" /\ pc = "running"
    /\ \E w \in Workers : wpc[w] = "returned"
    /\ ret' = gerr
    /\ pc' = "returned"
    /\ UNCHANGED <<mode, spec, stream, pending, chanClosed, cancelled, gerr, out>>
    /\ UNCHANGED workerVars
    /\ UNCHANGED notExecVars

\* g.Wait() returns once every worker has returned: Exec returns its error.
ExecReturn ==
    /\ mode = "exec" /\ pc = "running"
    /\ \A w \in Workers : wpc[w] \in {"off", "returned"}
    /\ ret' = gerr
    /\ pc' = "returned"
    /\ UNCHANGED <<mode, spec, stream, pending, chanClosed, cancelled, gerr, out>>
    /\ UNCHANGED workerVars
    /\ UNCHANGED notExecVars

\* --------------------------------------------------------------- JumpExec

\* The bytes of p, written to sink k: payload bytes "x" and newlines.
Tagged(k, p) == [i \in 1..Len(p) |-> [s |-> k, c |-> p[i]]]

\* The name of the i-th jump host.
HostName(i) == "h" \o Itoa(i)

\* A JumpSpec every requirement of which is met, with n jump hosts.
ValidJumpSpec(n, key) ==
    [ValidSpec(MaxParallel) EXCEPT !.JumpCommand = "ssh {.J}",
                                   !.JumpHosts = [i \in 1..n |-> HostName(i)],
                                   !.JumpHostsKeyFile = key]

\* The JumpSpecs JumpExec is called with: valid ones, with and without a key
\* file, and ones that fail a requirement of the Spec or of the JumpSpec.
JumpSpecs ==
    {ValidJumpSpec(n, "") : n \in 1..MaxHosts}
        \cup {ValidJumpSpec(1, "id_rsa")}
        \cup {[s EXCEPT !.JumpCommand = "ssh {.J}", !.JumpHosts = <<"h1">>] :
                 s \in InvalidSpecs}
        \cup {[ValidJumpSpec(1, "") EXCEPT !.JumpCommand = ""],
              [ValidJumpSpec(1, "") EXCEPT !.JumpHosts = <<>>]}

\* The hosts of the run.
JumpHostIds == 1..Len(spec.JumpHosts)

\* The errgroup's derived scope of JumpExec is done: the caller's scope
\* tripped, a task returned an error, or g.Wait returned. A return from
\* inside the loop does not end it.
JumpGroupDone ==
    \/ cancelled
    \/ gerr # NoErr
    \/ (pc = "returned" /\ hi > Len(spec.JumpHosts))

\* The state cmd/exec.go calls JumpExec in.
JumpInit ==
    /\ mode = "jump"
    /\ spec \in JumpSpecs
    /\ stream \in {TargetStream(n) : n \in 0..MaxJumpTargets}
    /\ pending = stream
    /\ chanClosed = FALSE
    /\ cancelled = FALSE
    /\ pc = "init"
    /\ ret = "none"
    /\ gerr = NoErr
    /\ out = <<>>
    /\ WorkersIdle /\ LossyIdle /\ SyncIdle /\ ArgvIdle /\ JumpIdle /\ ExtraIdle

\* What the steps of JumpExec leave alone.
\* The bytes a dispatcher writes for target t: its text and one newline.
TargetLineBare(t) == Itoa(t)

TargetLine(t) == Itoa(t) \o NL

\* The remote reader's view of a line: the text before its final newline.
TrimNL(line) ==
    IF Len(line) > 0 /\ SubSeq(line, Len(line), Len(line)) = NL
        THEN SubSeq(line, 1, Len(line) - 1)
        ELSE line

notJumpVars == <<workerVars, lossyVars, spc, srest, snum, sin, mu, tmpl, extraVars>>

\* JumpExec to the head of its loop: validation, then parallel.
JumpStart ==
    /\ mode = "jump" /\ pc = "init"
    /\ IF JumpSpecValidate(spec) # NoErr
         THEN /\ pc' = "returned"
              /\ ret' = JumpSpecValidate(spec)
              /\ UNCHANGED <<parallel, hi>>
         ELSE /\ pc' = "agent"
              /\ parallel' = JumpParallel(spec)
              /\ hi' = 1
              /\ UNCHANGED ret
    /\ UNCHANGED <<mode, spec, stream, pending, chanClosed, cancelled, gerr, out>>
    /\ UNCHANGED <<agent, shell, copier, disp, dcur, inbox, waiter, argv, sbuf>>
    /\ UNCHANGED <<wrote, werr, notJumpVars>>

\* sshAgent for the host of the loop: the agent answers with its socket, or
\* it cannot be started or ends before it answers, or the scope is done
\* first and the agent is killed. On an error JumpExec returns it.
AgentStart ==
    /\ mode = "jump" /\ pc = "agent"
    /\ \/ /\ ~JumpGroupDone
          /\ agent' = [agent EXCEPT ![hi] = "running"]
          /\ pc' = IF spec.JumpHostsKeyFile # "" THEN "addkey" ELSE "start"
          /\ UNCHANGED ret
       \/ /\ pc' = "returned"
          /\ ret' = "ssh-agent failed"
          /\ UNCHANGED agent
       \/ /\ JumpGroupDone
          /\ agent' = [agent EXCEPT ![hi] = "killed"]
          /\ pc' = "returned"
          /\ ret' = "ssh-agent terminated"
    /\ UNCHANGED <<mode, spec, stream, pending, chanClosed, cancelled, gerr, out>>
    /\ UNCHANGED <<hi, shell, copier, disp, dcur, inbox, waiter, parallel, argv, sbuf>>
    /\ UNCHANGED <<wrote, werr, notJumpVars>>

\* sshAddKey for the host of the loop; on an error JumpExec returns it.
AddKey ==
    /\ mode = "jump" /\ pc = "addkey"
    /\ \/ /\ ~JumpGroupDone
          /\ pc' = "start"
          /\ UNCHANGED ret
       \/ /\ pc' = "returned"
          /\ ret' = "ssh-add failed"
    /\ UNCHANGED <<mode, spec, stream, pending, chanClosed, cancelled, gerr, out>>
    /\ UNCHANGED <<jumpVars, parallel, argv, sbuf>>
    /\ UNCHANGED <<wrote, werr, notJumpVars>>

\* The rest of the loop body: the pipe, the sink, the argv, oscmd.Start and,
\* when it succeeds, the two g.Go; on an error JumpExec returns it.
ShellStart ==
    /\ mode = "jump" /\ pc = "start"
    /\ argv' = [argv EXCEPT ![hi] = JumpArgv(spec, spec.JumpHosts[hi], parallel)]
    /\ \/ /\ ~JumpGroupDone
          /\ shell' = [shell EXCEPT ![hi] = "running"]
          /\ copier' = [copier EXCEPT ![hi] = "reading"]
          /\ disp' = [disp EXCEPT ![hi] = "select"]
          /\ waiter' = [waiter EXCEPT ![hi] = "wait"]
          /\ hi' = hi + 1
          /\ pc' = IF hi = Len(spec.JumpHosts) THEN "wait" ELSE "agent"
          /\ UNCHANGED ret
       \/ /\ pc' = "returned"
          /\ ret' = IF JumpGroupDone THEN ErrCanceled ELSE "start failed"
          /\ UNCHANGED <<shell, copier, disp, waiter, hi>>
    /\ UNCHANGED <<mode, spec, stream, pending, chanClosed, cancelled, gerr, out>>
    /\ UNCHANGED <<agent, dcur, inbox, parallel, sbuf>>
    /\ UNCHANGED <<wrote, werr, notJumpVars>>

\* Dispatcher, case <-ctx.Done(): it returns ctx.Err(); its deferred
\* pw.Close() ends the copy to the shell's stdin, which closes that stdin.
DispDone(i) ==
    /\ mode = "jump" /\ disp[i] = "select" /\ JumpGroupDone
    /\ disp' = [disp EXCEPT ![i] = "returned"]
    /\ copier' = [copier EXCEPT ![i] = "done"]
    /\ gerr' = IF gerr = NoErr THEN ErrCanceled ELSE gerr
    /\ UNCHANGED <<mode, spec, stream, pending, chanClosed, cancelled, pc, ret, out>>
    /\ UNCHANGED <<hi, agent, shell, dcur, inbox, waiter, parallel, argv, sbuf>>
    /\ UNCHANGED <<wrote, werr, notJumpVars>>

\* Dispatcher, case t, more := <-targets with a target, and
\* io.WriteString(pw, t+"\n"). The Write completes when the copy to the
\* shell's stdin reads the line from the pipe: the line reaches a running
\* shell; with the shell gone the copy fails and ends, and the next Write
\* finds nobody reading the pipe and blocks.
DispRecv(i) ==
    /\ mode = "jump" /\ disp[i] = "select"
    /\ pending # <<>> /\ ~chanClosed
    /\ pending' = Tail(pending)
    /\ IF copier[i] = "reading"
         THEN /\ wrote' = [wrote EXCEPT ![i] = Append(wrote[i], TargetLine(Head(pending)))]
              /\ IF shell[i] = "running"
                   THEN /\ inbox' = [inbox EXCEPT ![i] = Append(inbox[i], TargetLine(Head(pending)))]
                        /\ UNCHANGED copier
                   ELSE /\ copier' = [copier EXCEPT ![i] = "done"]
                        /\ UNCHANGED inbox
              /\ UNCHANGED <<disp, dcur>>
         ELSE /\ dcur' = [dcur EXCEPT ![i] = Head(pending)]
              /\ disp' = [disp EXCEPT ![i] = "write"]
              /\ UNCHANGED <<copier, inbox, wrote>>
    /\ UNCHANGED <<mode, spec, stream, chanClosed, cancelled, pc, ret, gerr, out>>
    /\ UNCHANGED <<hi, agent, shell, waiter, werr, parallel, argv, sbuf>>
    /\ UNCHANGED notJumpVars

\* A dispatcher that returns at the end of the channel and leaves its pipe
\* open.
DispClosedNoClose(i) ==
    /\ mode = "jump" /\ disp[i] = "select" /\ chanClosed
    /\ disp' = [disp EXCEPT ![i] = "returned"]
    /\ UNCHANGED <<mode, spec, stream, pending, chanClosed, cancelled, pc, ret, gerr, out>>
    /\ UNCHANGED <<hi, agent, shell, copier, dcur, inbox, waiter, parallel, argv, sbuf>>
    /\ UNCHANGED <<wrote, werr, notJumpVars>>

\* Dispatcher, case !more: it returns nil; its deferred pw.Close() ends the
\* copy to the shell's stdin, which closes that stdin.
DispClosed(i) ==
    /\ mode = "jump" /\ disp[i] = "select" /\ chanClosed
    /\ disp' = [disp EXCEPT ![i] = "returned"]
    /\ copier' = [copier EXCEPT ![i] = "done"]
    /\ UNCHANGED <<mode, spec, stream, pending, chanClosed, cancelled, pc, ret, gerr, out>>
    /\ UNCHANGED <<hi, agent, shell, dcur, inbox, waiter, parallel, argv, sbuf>>
    /\ UNCHANGED <<wrote, werr, notJumpVars>>

\* The remote ush exec writes the record of a target; os/exec hands the line
\* to the host's sink in one Write.
ShellOutput(i) ==
    /\ mode = "jump" /\ shell[i] = "running" /\ inbox[i] # <<>>
    /\ LET r == SyncWrite(sbuf[i], Tagged(i, <<TrimNL(Head(inbox[i])), NL>>))
       IN  /\ out' = IF r.copy THEN out \o r.emit ELSE out
           /\ sbuf' = [sbuf EXCEPT ![i] = r.buf]
    /\ inbox' = [inbox EXCEPT ![i] = Tail(inbox[i])]
    /\ UNCHANGED <<mode, spec, stream, pending, chanClosed, cancelled, pc, ret, gerr>>
    /\ UNCHANGED <<hi, agent, shell, copier, disp, dcur, waiter, parallel, argv>>
    /\ UNCHANGED <<wrote, werr, notJumpVars>>

\* The remote shell ends: with status 0 after the end of its input, or with
\* an error at any time.
ShellExit(i, code) ==
    /\ mode = "jump" /\ shell[i] = "running"
    /\ code = 0 => (disp[i] = "returned" /\ inbox[i] = <<>>)
    /\ shell' = [shell EXCEPT ![i] = IF code = 0 THEN "exit0" ELSE "exit1"]
    /\ UNCHANGED <<hi, agent, copier, disp, dcur, inbox, waiter, parallel, argv, sbuf>>
    /\ UNCHANGED <<topVars, wrote, werr, notJumpVars>>

\* exec.CommandContext kills the host's agent and shell when the scope is
\* done.
ContextKill(i) ==
    /\ mode = "jump" /\ JumpGroupDone
    /\ agent[i] = "running" \/ shell[i] = "running"
    /\ agent' = [agent EXCEPT ![i] = IF @ = "running" THEN "killed" ELSE @]
    /\ shell' = [shell EXCEPT ![i] = IF @ = "running" THEN "killed" ELSE @]
    /\ UNCHANGED <<hi, copier, disp, dcur, inbox, waiter, parallel, argv, sbuf>>
    /\ UNCHANGED <<topVars, wrote, werr, notJumpVars>>

\* A waiter that goes on to its deferred calls without waiting for the shell.
WaiterWaitNoWait(i) ==
    /\ mode = "jump" /\ waiter[i] = "wait"
    /\ shell[i] # "none"
    /\ werr' = [werr EXCEPT ![i] = NoErr]
    /\ waiter' = [waiter EXCEPT ![i] = "flush"]
    /\ UNCHANGED <<mode, spec, stream, pending, chanClosed, cancelled, pc, ret, gerr, out>>
    /\ UNCHANGED <<hi, agent, shell, copier, disp, dcur, inbox, wrote, parallel, argv, sbuf>>
    /\ UNCHANGED notJumpVars

\* The waiter: oscmd.Wait returns once the shell has ended and the copy to
\* its stdin is over; its result is what the waiter will return.
WaiterWait(i) ==
    /\ mode = "jump" /\ waiter[i] = "wait"
    /\ shell[i] \in {"exit0", "exit1", "killed"} /\ copier[i] = "done"
    /\ werr' = [werr EXCEPT ![i] =
                   IF shell[i] = "exit0" THEN NoErr ELSE WaitResult(shell[i]).err]
    /\ shell' = [shell EXCEPT ![i] = "reaped"]
    /\ waiter' = [waiter EXCEPT ![i] = "flush"]
    /\ UNCHANGED <<mode, spec, stream, pending, chanClosed, cancelled, pc, ret, gerr, out>>
    /\ UNCHANGED <<hi, agent, copier, disp, dcur, inbox, wrote, parallel, argv, sbuf>>
    /\ UNCHANGED notJumpVars

\* The waiter's deferred stdout.Flush(), the first of its deferred calls to
\* run.
WaiterFlush(i) ==
    /\ mode = "jump" /\ waiter[i] = "flush"
    /\ out' = out \o sbuf[i]
    /\ sbuf' = [sbuf EXCEPT ![i] = <<>>]
    /\ waiter' = [waiter EXCEPT ![i] = "kill"]
    /\ UNCHANGED <<mode, spec, stream, pending, chanClosed, cancelled, pc, ret, gerr>>
    /\ UNCHANGED <<hi, agent, shell, copier, disp, dcur, inbox, parallel, argv>>
    /\ UNCHANGED <<wrote, werr, notJumpVars>>

\* The waiter's deferred agentcmd.Process.Kill(), then its return: the
\* errgroup keeps the first error returned.
WaiterKillAgent(i) ==
    /\ mode = "jump" /\ waiter[i] = "kill"
    /\ agent' = [agent EXCEPT ![i] = "killed"]
    /\ gerr' = IF gerr = NoErr THEN werr[i] ELSE gerr
    /\ waiter' = [waiter EXCEPT ![i] = "returned"]
    /\ UNCHANGED <<mode, spec, stream, pending, chanClosed, cancelled, pc, ret, out>>
    /\ UNCHANGED <<hi, shell, copier, disp, dcur, inbox, parallel, argv, sbuf>>
    /\ UNCHANGED <<wrote, werr, notJumpVars>>

\* The waiter from the return of oscmd.Wait to its own return, as one step:
\* the three steps above with nothing in between.
WaiterReturn(i) ==
    /\ mode = "jump" /\ waiter[i] = "wait"
    /\ shell[i] \in {"exit0", "exit1", "killed"} /\ copier[i] = "done"
    /\ gerr' = IF gerr = NoErr /\ shell[i] # "exit0" THEN WaitResult(shell[i]).err
               ELSE gerr
    /\ shell' = [shell EXCEPT ![i] = "reaped"]
    /\ out' = out \o sbuf[i]
    /\ sbuf' = [sbuf EXCEPT ![i] = <<>>]
    /\ agent' = [agent EXCEPT ![i] = "killed"]
    /\ waiter' = [waiter EXCEPT ![i] = "returned"]
    /\ UNCHANGED <<mode, spec, stream, pending, chanClosed, cancelled, pc, ret>>
    /\ UNCHANGED <<hi, copier, disp, dcur, inbox, parallel, argv>>
    /\ UNCHANGED <<wrote, werr, notJumpVars>>

\* g.Wait() returns once every dispatcher and waiter has returned.
JumpReturn ==
    /\ mode = "jump" /\ pc = "wait"
    /\ \A i \in JumpHostIds : disp[i] = "returned" /\ waiter[i] = "returned"
    /\ pc' = "returned"
    /\ ret' = gerr
    /\ UNCHANGED <<mode, spec, stream, pending, chanClosed, cancelled, gerr, out>>
    /\ UNCHANGED <<jumpVars, parallel, argv, sbuf>>
    /\ UNCHANGED <<wrote, werr, notJumpVars>>

\* ------------------------------------------------------- the environment

\* The caller's cancellation scope trips.
Cancel ==
    /\ ~cancelled /\ pc # "returned"
    /\ cancelled' = TRUE
    /\ UNCHANGED <<mode, spec, stream, pending, chanClosed, pc, ret, gerr, out>>
    /\ UNCHANGED workerVars
    /\ UNCHANGED notExecVars

\* Read closes the channel: at the end of its input, or, while it offers a
\* target, when ctx is done (the targets not yet sent are never delivered).
CloseInput ==
    /\ ~chanClosed
    /\ pending = <<>> \/ cancelled
    /\ chanClosed' = TRUE
    /\ UNCHANGED <<mode, spec, stream, pending, cancelled, pc, ret, gerr, out>>
    /\ UNCHANGED workerVars
    /\ UNCHANGED notExecVars

\* -------------------------------------------------- the writers, alone

RECURSIVE StringsOfLen(_)
\* The byte slices of n bytes, each "a" or "b".
StringsOfLen(n) ==
    IF n = 0 THEN {""}
    ELSE {x \o c : x \in StringsOfLen(n - 1), c \in {"a", "b"}}

\* The byte slices one Write is given.
Chunks == UNION {StringsOfLen(n) : n \in 0..MaxChunk}

\* A lossyWriter as runCmd makes it: an empty Buffer and a Limit > 0.
LossyInit ==
    /\ mode = "lossy"
    /\ lwLimit \in 1..MaxLimit
    /\ lwBuf = "" /\ lwIn = "" /\ lwRet = 0 /\ lwLast = 0
    /\ spec = ValidSpec(1) /\ stream = <<>> /\ pending = <<>>
    /\ chanClosed = FALSE /\ cancelled = FALSE
    /\ pc = "init" /\ ret = "none" /\ gerr = NoErr /\ out = <<>>
    /\ WorkersIdle /\ SyncIdle /\ ArgvIdle /\ JumpIdle /\ ExtraIdle

\* The process writes p to the lossyWriter.
LossyWriteStep(p) ==
    /\ mode = "lossy"
    /\ Len(lwIn) + Len(p) <= MaxInput
    /\ lwBuf' = LossyWrite(lwLimit, lwBuf, p).Buffer
    /\ lwRet' = LossyWrite(lwLimit, lwBuf, p).n
    /\ lwIn' = lwIn \o p
    /\ lwLast' = Len(p)
    /\ UNCHANGED <<lwLimit, topVars, workerVars, jumpVars, extraVars, syncVars, argvVars>>

LossyNext == \E p \in Chunks : LossyWriteStep(p)

SpecLossy == LossyInit /\ [][LossyNext]_vars

\* The slices a sink is given by the copy of a process's output: a record
\* "x\n", pieces of records, and several records at once.
SyncChunks ==
    { <<"x">>, <<"x", NL>>, <<NL>>, <<NL, "x">>, <<"x", NL, "x", NL>> }

\* Two sinks over one Writer and one mutex, as JumpExec makes them.
SyncInit ==
    /\ mode = "sync"
    /\ SyncIdle
    /\ spec = ValidSpec(1) /\ stream = <<>> /\ pending = <<>>
    /\ chanClosed = FALSE /\ cancelled = FALSE
    /\ pc = "init" /\ ret = "none" /\ gerr = NoErr /\ out = <<>>
    /\ WorkersIdle /\ LossyIdle /\ ArgvIdle /\ JumpIdle /\ ExtraIdle

\* Write(p) up to s.Mutex.Lock(): without a newline p is buffered, with a
\* leading newline Write returns at once, else p[:idx] joins the buffer.
SinkWrite(k, p) ==
    /\ mode = "sync" /\ spc[k] = "idle" /\ snum < MaxWrites
    /\ snum' = snum + 1
    /\ sin' = [sin EXCEPT ![k] = sin[k] \o Tagged(k, p)]
    /\ LET r == SyncWrite(sbuf[k], Tagged(k, p))
       IN  IF r.copy
             THEN /\ sbuf' = [sbuf EXCEPT ![k] = r.emit]
                  /\ srest' = [srest EXCEPT ![k] = r.buf]
                  /\ spc' = [spc EXCEPT ![k] = "lock"]
             ELSE /\ sbuf' = [sbuf EXCEPT ![k] = r.buf]
                  /\ UNCHANGED <<srest, spc>>
    /\ UNCHANGED <<mu, topVars, workerVars, jumpVars, extraVars, lossyVars, argvVars>>

\* Write or Flush takes the mutex.
SinkLock(k) ==
    /\ mode = "sync" /\ spc[k] \in {"lock", "flock"} /\ mu = 0
    /\ mu' = k
    /\ spc' = [spc EXCEPT ![k] = IF spc[k] = "lock" THEN "copy" ELSE "fcopy"]
    /\ UNCHANGED <<sbuf, srest, snum, sin, topVars, workerVars, jumpVars, extraVars, lossyVars, argvVars>>

\* Write from io.Copy(s.Writer, b) to its return: the buffer goes to the
\* Writer, the mutex is released, and p[idx:] becomes the buffer.
SinkCopy(k) ==
    /\ mode = "sync" /\ spc[k] = "copy" /\ mu = k
    /\ out' = out \o sbuf[k]
    /\ mu' = 0
    /\ sbuf' = [sbuf EXCEPT ![k] = srest[k]]
    /\ srest' = [srest EXCEPT ![k] = <<>>]
    /\ spc' = [spc EXCEPT ![k] = "idle"]
    /\ UNCHANGED <<mode, spec, stream, pending, chanClosed, cancelled, pc, ret, gerr>>
    /\ UNCHANGED <<snum, sin, workerVars, jumpVars, extraVars, lossyVars, argvVars>>

\* Flush is called, after the last Write.
SinkFlush(k) ==
    /\ mode = "sync" /\ spc[k] = "idle"
    /\ spc' = [spc EXCEPT ![k] = "flock"]
    /\ UNCHANGED <<sbuf, srest, snum, sin, mu, topVars, workerVars, jumpVars, extraVars, lossyVars, argvVars>>

\* Flush from io.Copy to its return.
SinkFlushCopy(k) ==
    /\ mode = "sync" /\ spc[k] = "fcopy" /\ mu = k
    /\ out' = out \o sbuf[k]
    /\ mu' = 0
    /\ sbuf' = [sbuf EXCEPT ![k] = <<>>]
    /\ spc' = [spc EXCEPT ![k] = "flushed"]
    /\ UNCHANGED <<mode, spec, stream, pending, chanClosed, cancelled, pc, ret, gerr>>
    /\ UNCHANGED <<srest, snum, sin, workerVars, jumpVars, extraVars, lossyVars, argvVars>>

SyncNext ==
    \E k \in Sinks :
        \/ \E p \in SyncChunks : SinkWrite(k, p)
        \/ SinkLock(k)
        \/ SinkCopy(k)
        \/ SinkFlush(k)
        \/ SinkFlushCopy(k)

SpecSync == SyncInit /\ [][SyncNext]_vars

\* ------------------------------------------------ the validators, alone

\* Specs with every field set, unset, or negative.
ValidateSpecs ==
    [Command : {"", "a"}, Args : {<<>>}, Timeout : {-1, 0, 1},
     Parallel : {-1, 0, 1}, StdoutBytes : {-1, 0, 1}, StderrBytes : {-1, 0, 1},
     JumpHostsKeyFile : {""}, JumpCommand : {"", "ssh {.J}"},
     JumpHosts : {<<>>, <<"h1">>}]

ValidateInit ==
    /\ mode = "validate"
    /\ spec \in ValidateSpecs
    /\ stream = <<>> /\ pending = <<>>
    /\ chanClosed = FALSE /\ cancelled = FALSE
    /\ pc = "init" /\ ret = "none" /\ gerr = NoErr /\ out = <<>>
    /\ WorkersIdle /\ LossyIdle /\ SyncIdle /\ ArgvIdle /\ JumpIdle /\ ExtraIdle

\* s.Spec.Validate() is called.
ValidateSpec ==
    /\ mode = "validate" /\ pc = "init"
    /\ ret' = SpecValidate(spec)
    /\ pc' = "Spec.Validate"
    /\ UNCHANGED <<mode, spec, stream, pending, chanClosed, cancelled, gerr, out>>
    /\ UNCHANGED <<workerVars, jumpVars, extraVars, lossyVars, syncVars, argvVars>>

\* s.Validate() is called.
ValidateJumpSpec ==
    /\ mode = "validate" /\ pc = "init"
    /\ ret' = JumpSpecValidate(spec)
    /\ pc' = "JumpSpec.Validate"
    /\ UNCHANGED <<mode, spec, stream, pending, chanClosed, cancelled, gerr, out>>
    /\ UNCHANGED <<workerVars, jumpVars, extraVars, lossyVars, syncVars, argvVars>>

ValidateNext == ValidateSpec \/ ValidateJumpSpec

SpecValidation == ValidateInit /\ [][ValidateNext]_vars

\* ------------------------------------------------------ the argv, alone

\* In a jump command written as tokens of pieces, the piece that stands for
\* the jump host.
Hole == "<J>"

RECURSIVE Fill(_, _)
\* The token made of pieces, the jump host's place taken by h.
Fill(pieces, h) ==
    IF pieces = <<>> THEN ""
    ELSE (IF Head(pieces) = Hole THEN h ELSE Head(pieces)) \o Fill(Tail(pieces), h)

RECURSIVE Join(_)
\* The tokens, with one space between two of them.
Join(tokens) ==
    IF Len(tokens) = 1 THEN tokens[1]
    ELSE tokens[1] \o " " \o Join(Tail(tokens))

\* The tokens of template t, the jump host's place taken by h.
Tokens(t, h) == [k \in 1..Len(t) |-> Fill(t[k], h)]

\* Jump commands: ssh -A {.J}, echo {.J}, ssh u@{.J} {.J}, sh, ssh  {.J}.
Templates ==
    { << <<"ssh">>, <<"-A">>, <<Hole>> >>,
      << <<"echo">>, <<Hole>> >>,
      << <<"ssh">>, <<"u@", Hole>>, <<Hole>> >>,
      << <<"sh">> >>,
      << <<"ssh">>, <<>>, <<Hole>> >> }

\* The jump hosts.
Hosts == {"localhost", "h2"}

\* Timeout (in seconds), StdoutBytes, StderrBytes.
Limits == { <<1, 1024, 1024>>, <<90, 1, 20>>, <<3600, 7, 10>> }

\* How Go prints the numbers of Limits: time.Duration.String() of the
\* Timeouts, strconv.Itoa of the byte limits.
TimeoutText == [d \in {1, 90, 3600} |->
                   CASE d = 1 -> "1s" [] d = 90 -> "1m30s" [] OTHER -> "1h0m0s"]

BytesText == [n \in {1, 7, 10, 20, 1024} |->
                 CASE n = 1 -> "1" [] n = 7 -> "7" [] n = 10 -> "10"
                   [] n = 20 -> "20" [] OTHER -> "1024"]

\* Command and Args.
Commands == { <<"echo", <<"{.T}">> >>, <<"e{.T}", <<>> >>, <<"ssh", <<"-n", "{.T}">> >> }

ArgvInit ==
    /\ mode = "argv"
    /\ tmpl \in Templates
    /\ \E c \in Commands, l \in Limits, p \in 1..MaxJumpParallel,
          n \in 1..MaxHosts :
          \E hs \in [1..n -> Hosts] :
             spec = [Command |-> c[1], Args |-> c[2], Timeout |-> l[1],
                     Parallel |-> p, StdoutBytes |-> l[2], StderrBytes |-> l[3],
                     JumpHostsKeyFile |-> "",
                     JumpCommand |-> Join(Tokens(tmpl, "{.J}")),
                     JumpHosts |-> hs]
    /\ parallel = 0 /\ argv = [h \in 1..MaxHosts |-> <<>>]
    /\ stream = <<>> /\ pending = <<>>
    /\ chanClosed = FALSE /\ cancelled = FALSE
    /\ pc = "init" /\ ret = "none" /\ gerr = NoErr /\ out = <<>>
    /\ WorkersIdle /\ LossyIdle /\ SyncIdle /\ JumpIdle /\ ExtraIdle

\* JumpExec computes parallel.
ArgvParallel ==
    /\ mode = "argv" /\ pc = "init"
    /\ parallel' = JumpParallel(spec)
    /\ pc' = "setup"
    /\ UNCHANGED <<mode, spec, stream, pending, chanClosed, cancelled, ret, gerr, out>>
    /\ UNCHANGED <<tmpl, argv, workerVars, jumpVars, extraVars, lossyVars, syncVars>>

\* JumpExec builds the command of the i-th jump host.
ArgvBuild(i) ==
    /\ mode = "argv" /\ pc = "setup"
    /\ i \in 1..Len(spec.JumpHosts)
    /\ \A j \in 1..MaxHosts : (argv[j] = <<>>) = (j >= i)
    /\ argv' = [argv EXCEPT ![i] = JumpArgv(spec, spec.JumpHosts[i], parallel)]
    /\ UNCHANGED <<tmpl, parallel, topVars, workerVars, jumpVars, extraVars, lossyVars, syncVars>>

ArgvNext == ArgvParallel \/ \E i \in 1..MaxHosts : ArgvBuild(i)

SpecArgv == ArgvInit /\ [][ArgvNext]_vars

\* ------------------------------------------------ the argv of runCmd

\* A runCmd that gives the command name to exec.Command as it is written.
RunArgvArgsOnly(s, target) ==
    <<s.Command>> \o [i \in 1..Len(s.Args) |-> Replace(s.Args[i], "{.T}", target)]

\* runCmd: cmd and args, the arguments of exec.Command.
RunArgv(s, target) ==
    <<Replace(s.Command, "{.T}", target)>>
        \o [i \in 1..Len(s.Args) |-> Replace(s.Args[i], "{.T}", target)]

\* Commands with their Args, as tokens of pieces where Hole stands for the
\* target: echo {.T}; e{.T}; ssh -n {.T}; {.T} -v; scp {.T}:f {.T}/{.T}; ls.
RunTemplates ==
    { << <<"echo">>, <<Hole>> >>,
      << <<"e", Hole>> >>,
      << <<"ssh">>, <<"-n">>, <<Hole>> >>,
      << <<Hole>>, <<"-v">> >>,
      << <<"scp">>, <<Hole, ":f">>, <<Hole, "/", Hole>> >>,
      << <<"ls">> >> }

\* Targets: host names, and a line that is itself the marker.
RunTargets == {"a", "h1", "{.T}", "x y"}

\* runCmd is about to be called with a Spec and a target.
RunArgvInit ==
    /\ mode = "runargv"
    /\ tmpl \in RunTemplates
    /\ rtarget \in RunTargets
    /\ rargv = <<>>
    /\ \E l \in Limits :
          spec = [Command |-> Fill(tmpl[1], "{.T}"),
                  Args |-> Tokens(Tail(tmpl), "{.T}"),
                  Timeout |-> l[1], Parallel |-> 1,
                  StdoutBytes |-> l[2], StderrBytes |-> l[3],
                  JumpHostsKeyFile |-> "", JumpCommand |-> "", JumpHosts |-> <<>>]
    /\ parallel = 0 /\ argv = [h \in 1..MaxHosts |-> <<>>]
    /\ stream = <<>> /\ pending = <<>>
    /\ chanClosed = FALSE /\ cancelled = FALSE
    /\ pc = "init" /\ ret = "none" /\ gerr = NoErr /\ out = <<>>
    /\ WorkersIdle /\ LossyIdle /\ SyncIdle /\ JumpIdle /\ TimeIdle /\ ReadIdle
    /\ AgentIdle /\ MoreIdle

\* runCmd to exec.Command(cmd, args...).
RunArgvBuild ==
    /\ mode = "runargv" /\ pc = "init"
    /\ rargv' = RunArgv(spec, rtarget)
    /\ pc' = "command"
    /\ UNCHANGED <<mode, spec, stream, pending, chanClosed, cancelled, ret, gerr, out>>
    /\ UNCHANGED <<rtarget, workerVars, lossyVars, syncVars, argvVars, jumpVars>>
    /\ UNCHANGED <<timeVars, readVars, agentVars, moreVars>>

SpecRunArgv == RunArgvInit /\ [][RunArgvBuild]_vars

\* ------------------------------------------------ the times of runCmd

\* The clocks advance by these many seconds at a time: enough for durations
\* printed with seconds only, with minutes, and with hours.
TickSizes == {1, 59, 3600}

\* time.Now(): a reading of the wall clock and one of the monotonic clock.
Now == clock

\* The difference of the wall clock readings, which t.Sub(u) does not use
\* when both times carry a monotonic reading.
TimeSubWall(t, u) == t.wall - u.wall

\* t.Sub(u) for times read by time.Now(): the difference of their monotonic
\* readings.
TimeSub(t, u) == t.mono - u.mono

TimesInit ==
    /\ mode = "times"
    /\ spec = ValidSpec(1)
    /\ stream = <<>> /\ pending = <<>>
    /\ chanClosed = FALSE /\ cancelled = FALSE
    /\ pc = "init" /\ ret = "none" /\ gerr = NoErr /\ out = <<>>
    /\ WorkersIdle /\ LossyIdle /\ SyncIdle /\ ArgvIdle /\ JumpIdle /\ RunIdle
    /\ ReadIdle /\ AgentIdle /\ MoreIdle
    /\ clock = [wall |-> 1, mono |-> 1] /\ nticks = 0 /\ tpc = "entry"
    /\ tstart = ZeroTime /\ tend = ZeroTime /\ tdur = ""
    /\ tspawn = None /\ treap = None

notTimeVars ==
    <<topVars, workerVars, lossyVars, syncVars, argvVars, jumpVars, runVars, readVars,
      agentVars, moreVars>>

\* Time passes: both clocks advance together.
TimeTick(d) ==
    /\ mode = "times" /\ nticks < MaxTicks
    /\ clock' = [wall |-> clock.wall + d, mono |-> clock.mono + d]
    /\ nticks' = nticks + 1
    /\ UNCHANGED <<tpc, tstart, tend, tdur, tspawn, treap, notTimeVars>>

\* The wall clock is set, forwards or backwards, by clock synchronisation;
\* the monotonic clock is not.
WallStep(d) ==
    /\ mode = "times" /\ clock.wall = clock.mono
    /\ clock' = [clock EXCEPT !.wall = @ + d]
    /\ UNCHANGED <<nticks, tpc, tstart, tend, tdur, tspawn, treap, notTimeVars>>

\* res := Result{Target: target, StartTime: time.Now()}.
RunCreate ==
    /\ mode = "times" /\ tpc = "entry"
    /\ tstart' = Now
    /\ tpc' = "created"
    /\ UNCHANGED <<clock, nticks, tend, tdur, tspawn, treap, notTimeVars>>

\* oscmd.Run starts the process.
RunSpawn ==
    /\ mode = "times" /\ tpc = "created"
    /\ tspawn' = clock.mono
    /\ tpc' = "running"
    /\ UNCHANGED <<clock, nticks, tstart, tend, tdur, treap, notTimeVars>>

\* oscmd.Run fails to start the process and returns.
RunSpawnFail ==
    /\ mode = "times" /\ tpc = "created"
    /\ tpc' = "waited"
    /\ UNCHANGED <<clock, nticks, tstart, tend, tdur, tspawn, treap, notTimeVars>>

\* oscmd.Run returns from waiting for the process.
RunReap ==
    /\ mode = "times" /\ tpc = "running"
    /\ treap' = clock.mono
    /\ tpc' = "waited"
    /\ UNCHANGED <<clock, nticks, tstart, tend, tdur, tspawn, notTimeVars>>

\* res.EndTime = time.Now(); res.Duration = res.EndTime.Sub(res.StartTime).String().
RunFinish ==
    /\ mode = "times" /\ tpc = "waited"
    /\ tend' = Now
    /\ tdur' = DurationString(TimeSub(Now, tstart))
    /\ tpc' = "done"
    /\ UNCHANGED <<clock, nticks, tstart, tspawn, treap, notTimeVars>>

TimesNext ==
    \/ \E d \in TickSizes : TimeTick(d)
    \/ \E d \in {0 - 1, 1} : WallStep(d)
    \/ RunCreate \/ RunSpawn \/ RunSpawnFail \/ RunReap \/ RunFinish

SpecTimes == TimesInit /\ [][TimesNext]_vars

\* --------------------------------------------------------------- Read

\* The longest token a bufio.Scanner made by bufio.NewScanner accepts, scaled
\* down from bufio.MaxScanTokenSize (64 KiB).
MaxScanTokenSize == 4

\* bufio's dropCR: the token without a final carriage return.
DropCR(data) ==
    IF Len(data) > 0 /\ SubSeq(data, Len(data), Len(data)) = "\r"
        THEN SubSeq(data, 1, Len(data) - 1)
        ELSE data

\* One scanner.Scan() with bufio.ScanLines over the unread bytes: the next
\* line without its newline, a final line without newline included; no token
\* at the end of the input, nor when the line does not fit the buffer.
ScanLines(rest) ==
    LET nl == {i \in 1..Len(rest) : SubSeq(rest, i, i) = NL}
        i == IF nl = {} THEN 0 ELSE CHOOSE k \in nl : \A j \in nl : k <= j
        line == IF i = 0 THEN rest ELSE SubSeq(rest, 1, i - 1)
    IN  [ok |-> Len(rest) > 0 /\ Len(line) < MaxScanTokenSize,
         token |-> DropCR(line),
         rest |-> IF i = 0 THEN "" ELSE SubSeq(rest, i + 1, Len(rest))]

\* The lines the inputs are made of: empty, a comment, two targets, a longer
\* target, and a line that does not fit the scanner's buffer.
ReadLines == {"", "#c", "a", "b", "abc", "aaaa"}

RECURSIVE LinesText(_)
\* The lines, each followed by a newline.
LinesText(ls) ==
    IF ls = <<>> THEN "" ELSE Head(ls) \o NL \o LinesText(Tail(ls))

\* The inputs: up to MaxLines lines, the last one with or without newline.
ReadInputs ==
    LET seqs == UNION {[1..n -> ReadLines] : n \in 0..MaxLines}
    IN  {LinesText(ls) : ls \in seqs}
        \cup {LinesText(SubSeq(ls, 1, Len(ls) - 1)) \o ls[Len(ls)] :
                  ls \in {q \in seqs : Len(q) > 0}}

ReadInit ==
    /\ mode = "read"
    /\ spec = ValidSpec(1)
    /\ stream = <<>> /\ pending = <<>>
    /\ chanClosed = FALSE /\ cancelled = FALSE
    /\ pc = "init" /\ ret = "none" /\ gerr = NoErr /\ out = <<>>
    /\ WorkersIdle /\ LossyIdle /\ SyncIdle /\ ArgvIdle /\ JumpIdle
    /\ RunIdle /\ TimeIdle /\ AgentIdle /\ MoreIdle
    /\ rin \in ReadInputs
    /\ rexcl \in {{}, {"b"}}
    /\ rrest = rin /\ rpc = "scan" /\ rt = "" /\ rdeliv = <<>>

notReadVars ==
    <<mode, spec, stream, pending, cancelled, pc, ret, gerr, out,
      workerVars, lossyVars, syncVars, argvVars, jumpVars, runVars, timeVars,
      agentVars, moreVars>>

\* for scanner.Scan() { t := scanner.Text(); if ... { continue } ... }: a
\* line that is kept goes to the select; when Scan returns false the
\* goroutine returns and its deferred close(targets) runs.
ReadScan ==
    /\ mode = "read" /\ rpc = "scan"
    /\ LET r == ScanLines(rrest)
           t == r.token
       IN  IF ~r.ok
             THEN /\ rpc' = "closed" /\ chanClosed' = TRUE
                  /\ UNCHANGED <<rrest, rt>>
             ELSE /\ rrest' = r.rest
                  /\ IF t = "" \/ SubSeq(t, 1, 1) = "#" \/ t \in rexcl
                       THEN UNCHANGED <<rpc, rt>>
                       ELSE rt' = t /\ rpc' = "send"
                  /\ UNCHANGED chanClosed
    /\ UNCHANGED <<rin, rexcl, rdeliv, notReadVars>>

\* case targets <- t: a receiver takes the line.
ReadSend ==
    /\ mode = "read" /\ rpc = "send"
    /\ rdeliv' = Append(rdeliv, rt)
    /\ rpc' = "scan"
    /\ UNCHANGED <<rin, rexcl, rrest, rt, chanClosed, notReadVars>>

\* case <-ctx.Done(): return, and the deferred close(targets) runs.
ReadCtxDone ==
    /\ mode = "read" /\ rpc = "send" /\ cancelled
    /\ rpc' = "closed" /\ chanClosed' = TRUE
    /\ UNCHANGED <<rin, rexcl, rrest, rt, rdeliv, notReadVars>>

ReadNext == ReadScan \/ ReadSend \/ ReadCtxDone \/ Cancel

SpecRead == ReadInit /\ [][ReadNext]_vars

\* ------------------------------------------------------------ sshAgent

\* s cut at the first sep, a single byte, as bytes.SplitN(s, sep, 2) does:
\* one part, s itself, when sep is not in s. (s is bound to v so that it is
\* evaluated once.)
Cut(s, sep) ==
    CHOOSE parts \in
        { LET at == {k \in 1..Len(v) : SubSeq(v, k, k) = sep}
              i == IF at = {} THEN 0 ELSE CHOOSE k \in at : \A j \in at : k <= j
          IN  [found |-> i > 0,
               before |-> IF i = 0 THEN v ELSE SubSeq(v, 1, i - 1),
               after |-> IF i = 0 THEN "" ELSE SubSeq(v, i + 1, Len(v))]
          : v \in {s} } : TRUE

\* The paths that exist in the filesystem.
ExistingPaths == {"/s"}

\* An os.Stat that finds every path.
StatAlways(path) == TRUE

\* os.Stat(path) returns no error.
Stat(path) == path \in ExistingPaths

\* sshAgentStdout.Write(p) while s.done is false, on the buffer b: p joins
\* the buffer; with a newline in p the first line of the buffer is parsed.
\* The result: the buffer, s.done, the returned n and err, the path sent on
\* authsock or <<>>, and whether parts[1] is indexed out of range.
ParseHandshake(b, p) ==
    LET nb == b \o p
        quiet == [b |-> nb, done |-> FALSE, n |-> Len(p), err |-> NoErr,
                  send |-> <<>>, panic |-> FALSE]
        line1 == Cut(nb, NL).before
        parts == Cut(line1, "=")
        sock == Cut(parts.after, ";").before
    IN  IF ~Cut(p, NL).found THEN quiet
        ELSE IF ~parts.found /\ parts.before # "SSH_AUTH_SOCK"
          THEN [quiet EXCEPT !.n = 0, !.err = "unexpected output from ssh-agent"]
        ELSE IF ~parts.found THEN [quiet EXCEPT !.n = 0, !.panic = TRUE]
        ELSE IF ~Stat(sock)
          THEN [quiet EXCEPT !.n = 0, !.err = "cannot stat SSH_AUTH_SOCK"]
        ELSE [quiet EXCEPT !.done = TRUE, !.send = <<sock>>]

\* A Write that parses whether or not s.done is set.
SshAgentStdoutWriteAlways(b, done, p) == ParseHandshake(b, p)

\* sshAgentStdout.Write(p).
SshAgentStdoutWrite(b, done, p) ==
    IF done
      THEN [b |-> b, done |-> TRUE, n |-> Len(p), err |-> NoErr,
            send |-> <<>>, panic |-> FALSE]
      ELSE ParseHandshake(b, p)

\* What the agent writes: a first line and a second line, in one write, line
\* by line, or with the first line cut in the middle. The first lines: a
\* socket that exists, one that does not, an empty one, a key that is not
\* SSH_AUTH_SOCK, and two lines without '=', the key alone and something else.
AgentOutputs ==
    LET lines == {"SSH_AUTH_SOCK=/s; export", "SSH_AUTH_SOCK=/n; export",
                  "SSH_AUTH_SOCK=", "FOO=/s", "SSH_AUTH_SOCK", "junk"}
        second == "echo pid;" \o NL
        half(l) == Len(l) \div 2
    IN  UNION {{ <<l \o NL \o second>>,
                 <<SubSeq(l, 1, half(l)), SubSeq(l, half(l) + 1, Len(l)) \o NL, second>>,
                 <<l \o NL, second>> } : l \in lines}

AgentInit ==
    /\ mode = "agent"
    /\ spec = ValidSpec(1)
    /\ stream = <<>> /\ pending = <<>>
    /\ chanClosed = FALSE /\ cancelled = FALSE
    /\ pc = "init" /\ ret = "none" /\ gerr = NoErr /\ out = <<>>
    /\ WorkersIdle /\ LossyIdle /\ SyncIdle /\ ArgvIdle /\ JumpIdle
    /\ RunIdle /\ TimeIdle /\ ReadIdle /\ MoreIdle
    /\ ain \in AgentOutputs
    /\ abuf = "" /\ adone = FALSE /\ achan = <<>> /\ asent = 0
    /\ awret = [n |-> 0, err |-> NoErr] /\ acopy = "off" /\ aproc = "none"
    /\ aperr = <<>> /\ apc = "start"
    /\ aret = [cmd |-> FALSE, sock |-> "", err |-> NoErr]

notAgentVars ==
    <<mode, spec, stream, pending, chanClosed, pc, ret, gerr, out,
      workerVars, lossyVars, syncVars, argvVars, jumpVars, runVars, timeVars, readVars,
      moreVars>>

\* cmd.Start() of the agent: the process runs and os/exec copies its stdout
\* into the parser; or Start fails, at once if the scope is done already.
AgentSpawn ==
    /\ mode = "agent" /\ apc = "start"
    /\ \/ /\ ~cancelled
          /\ aproc' = "running" /\ acopy' = "copying" /\ apc' = "spawned"
          /\ UNCHANGED aret
       \/ /\ apc' = "returned"
          /\ aret' = [cmd |-> FALSE, sock |-> "",
                      err |-> IF cancelled THEN ErrCanceled ELSE "ssh-agent failed"]
          /\ UNCHANGED <<aproc, acopy>>
    /\ UNCHANGED <<ain, abuf, adone, achan, asent, awret, aperr, cancelled, notAgentVars>>

\* sshAgent reaches its select: with no case ready it parks; else it takes
\* one of the ready cases. In the ctx.Done() case it kills the agent.
AgentSelect ==
    /\ mode = "agent" /\ apc = "spawned" /\ acopy # "panic"
    /\ IF achan = <<>> /\ ~cancelled /\ aperr = <<>>
         THEN /\ apc' = "parked"
              /\ UNCHANGED <<aret, achan, aproc>>
         ELSE /\ apc' = "returned"
              /\ \/ /\ achan # <<>>
                    /\ aret' = [cmd |-> TRUE, sock |-> achan[1], err |-> NoErr]
                    /\ achan' = <<>>
                    /\ UNCHANGED aproc
                 \/ /\ cancelled
                    /\ aret' = [cmd |-> FALSE, sock |-> "", err |-> "ssh-agent terminated"]
                    /\ aproc' = IF aproc = "running" THEN "killed" ELSE aproc
                    /\ UNCHANGED achan
                 \/ /\ aperr # <<>>
                    /\ aret' = [cmd |-> FALSE, sock |-> "",
                                err |-> IF aperr[1] = NoErr THEN "ssh-agent terminated"
                                        ELSE aperr[1]]
                    /\ UNCHANGED <<achan, aproc>>
    /\ UNCHANGED <<ain, abuf, adone, asent, awret, acopy, aperr, cancelled, notAgentVars>>

\* The agent writes to its stdout and os/exec's copy hands the bytes to
\* sshAgentStdout.Write. A send on authsock wakes a parked sshAgent, which
\* returns the path; a send on a full authsock blocks; an error returned by
\* Write ends the copy; an index out of range brings the program down.
AgentStdout ==
    /\ mode = "agent" /\ acopy = "copying" /\ aproc = "running" /\ ain # <<>>
    /\ LET r == SshAgentStdoutWrite(abuf, adone, Head(ain))
       IN  /\ abuf' = r.b
           /\ IF r.panic \/ (r.send # <<>> /\ achan # <<>>)
                THEN /\ acopy' = IF r.panic THEN "panic" ELSE "blocked"
                     /\ UNCHANGED <<ain, adone, achan, asent, awret, apc, aret>>
                ELSE /\ ain' = Tail(ain)
                     /\ adone' = r.done
                     /\ awret' = [n |-> r.n, err |-> r.err]
                     /\ acopy' = IF r.err # NoErr THEN "failed" ELSE "copying"
                     /\ asent' = asent + Len(r.send)
                     /\ IF r.send # <<>> /\ apc = "parked"
                          THEN /\ apc' = "returned"
                               /\ aret' = [cmd |-> TRUE, sock |-> r.send[1], err |-> NoErr]
                               /\ UNCHANGED achan
                          ELSE /\ achan' = IF r.send # <<>> THEN r.send ELSE achan
                               /\ UNCHANGED <<apc, aret>>
    /\ UNCHANGED <<aproc, aperr, cancelled, notAgentVars>>

\* The agent process ends: it exits by itself, or exec.CommandContext kills
\* it once the scope is done.
AgentEnds(how) ==
    /\ mode = "agent" /\ aproc = "running" /\ acopy # "panic"
    /\ how = "killed" => cancelled
    /\ aproc' = how
    /\ UNCHANGED <<ain, abuf, adone, achan, asent, awret, acopy, aperr, apc, aret>>
    /\ UNCHANGED <<cancelled, notAgentVars>>

\* cmd.Wait() returns in its goroutine, once the process has ended and the
\* copy of its stdout is over, and its error goes to procErr; a parked
\* sshAgent wakes and returns it, or errAgentTerminated for a nil error.
AgentWaitReturn ==
    /\ mode = "agent" /\ aproc \in {"exited", "killed"} /\ aperr = <<>>
    /\ acopy \in {"copying", "failed"}
    /\ LET e == IF aproc = "killed" THEN "signal: killed"
                ELSE IF acopy = "failed" THEN awret.err ELSE NoErr
       IN  /\ aperr' = <<e>>
           /\ IF apc = "parked"
                THEN /\ apc' = "returned"
                     /\ aret' = [cmd |-> FALSE, sock |-> "",
                                 err |-> IF e = NoErr THEN "ssh-agent terminated" ELSE e]
                ELSE UNCHANGED <<apc, aret>>
    /\ acopy' = IF acopy = "copying" THEN "ended" ELSE acopy
    /\ UNCHANGED <<ain, abuf, adone, achan, asent, awret, aproc, cancelled, notAgentVars>>

\* The scope is cancelled; a parked sshAgent wakes in its ctx.Done() case,
\* kills the agent and returns errAgentTerminated.
AgentCancel ==
    /\ mode = "agent" /\ ~cancelled /\ apc # "returned" /\ acopy # "panic"
    /\ cancelled' = TRUE
    /\ IF apc = "parked"
         THEN /\ apc' = "returned"
              /\ aret' = [cmd |-> FALSE, sock |-> "", err |-> "ssh-agent terminated"]
              /\ aproc' = IF aproc = "running" THEN "killed" ELSE aproc
         ELSE UNCHANGED <<apc, aret, aproc>>
    /\ UNCHANGED <<ain, abuf, adone, achan, asent, awret, acopy, aperr, notAgentVars>>

AgentNext ==
    \/ AgentSpawn \/ AgentSelect \/ AgentStdout \/ AgentWaitReturn \/ AgentCancel
    \/ \E how \in {"exited", "killed"} : AgentEnds(how)

\* sshAgent under fair scheduling: sshAgent and the goroutines of os/exec
\* take the step they are able to take, and a running agent writes what it
\* has to write. The agent may never exit, and the caller may never cancel.
SpecAgent ==
    /\ AgentInit /\ [][AgentNext]_vars
    /\ WF_vars(AgentSpawn) /\ WF_vars(AgentSelect) /\ WF_vars(AgentStdout)
    /\ WF_vars(AgentWaitReturn) /\ WF_vars(AgentEnds("killed"))

\* --------------------------------------------------------- newLogWriter

\* What a process writes to the stderr it was given: up to MaxLines lines,
\* short ones and one that does not fit the scanner's buffer, each with its
\* newline, in one Write, in one Write per line, or in two halves.
LogOutputs ==
    LET seqs == UNION {[1..n -> {"a", "bc", "abcd"}] : n \in 1..MaxLines}
        half(t) == Len(t) \div 2
    IN  UNION {{ <<LinesText(ls)>>,
                 [i \in 1..Len(ls) |-> ls[i] \o NL],
                 <<SubSeq(LinesText(ls), 1, half(LinesText(ls))),
                   SubSeq(LinesText(ls), half(LinesText(ls)) + 1, Len(LinesText(ls)))>> }
               : ls \in seqs}

\* newLogWriter(ctx, jumphost, isErr) has returned pw: the pipe is empty, the
\* scanning goroutine is in scanner.Scan() and the other waits for ctx.Done().
LogInit ==
    /\ mode = "log"
    /\ spec = ValidSpec(1)
    /\ stream = <<>> /\ pending = <<>>
    /\ chanClosed = FALSE /\ cancelled = FALSE
    /\ pc = "init" /\ ret = "none" /\ gerr = NoErr /\ out = <<>>
    /\ WorkersIdle /\ LossyIdle /\ SyncIdle /\ ArgvIdle /\ JumpIdle
    /\ RunIdle /\ TimeIdle /\ ReadIdle /\ AgentIdle
    /\ EncIdle /\ FreqIdle
    /\ lsrc \in LogOutputs
    /\ lnext = 1 /\ lpend = "" /\ lw = "idle" /\ lsbuf = ""
    /\ lscan = "scanning" /\ lclosed = FALSE /\ lerr = <<>>

notLogVars ==
    <<mode, spec, stream, pending, chanClosed, cancelled, pc, ret, gerr, out,
      workerVars, lossyVars, syncVars, argvVars, jumpVars, runVars, timeVars,
      readVars, agentVars, encVars, freqVars>>

\* fmt.Fprintf(os.Stderr, "%s: %s", jumphost, scanner.Text()).
LogLine(jumphost, text) == jumphost \o ": " \o text

\* The copy of the process's stderr calls pw.Write(p): the bytes wait in the
\* pipe for pr.Read; on a closed pipe Write returns io.ErrClosedPipe.
LogWrite ==
    /\ mode = "log" /\ lw = "idle" /\ lnext <= Len(lsrc)
    /\ lnext' = lnext + 1
    /\ IF lclosed
         THEN lw' = "failed" /\ UNCHANGED lpend
         ELSE lw' = "writing" /\ lpend' = lsrc[lnext]
    /\ UNCHANGED <<lsrc, lsbuf, lscan, lclosed, lerr, notLogVars>>

\* scanner.Scan() with no line in its buffer reads from pr what the buffer
\* has room for; the Write returns when all its bytes are read.
LogRead ==
    /\ mode = "log" /\ lscan = "scanning" /\ ~lclosed /\ lw = "writing"
    /\ ~Cut(lsbuf, NL).found /\ Len(lsbuf) < MaxScanTokenSize
    /\ LET k == Min(Len(lpend), MaxScanTokenSize - Len(lsbuf))
       IN  /\ lsbuf' = lsbuf \o SubSeq(lpend, 1, k)
           /\ lpend' = SubSeq(lpend, k + 1, Len(lpend))
           /\ lw' = IF k = Len(lpend) THEN "idle" ELSE "writing"
    /\ UNCHANGED <<lsrc, lnext, lscan, lclosed, lerr, notLogVars>>

\* scanner.Scan() finds a line in its buffer and the loop prints it.
LogPrint ==
    /\ mode = "log" /\ lscan = "scanning" /\ Cut(lsbuf, NL).found
    /\ lerr' = Append(lerr, LogLine(HostName(1), DropCR(Cut(lsbuf, NL).before)))
    /\ lsbuf' = Cut(lsbuf, NL).after
    /\ UNCHANGED <<lsrc, lnext, lpend, lw, lscan, lclosed, notLogVars>>

\* scanner.Scan() with a full buffer and no newline in it: bufio.ErrTooLong,
\* Scan returns false and the goroutine ends.
LogTooLong ==
    /\ mode = "log" /\ lscan = "scanning"
    /\ ~Cut(lsbuf, NL).found /\ Len(lsbuf) >= MaxScanTokenSize
    /\ lscan' = "toolong"
    /\ UNCHANGED <<lsrc, lnext, lpend, lw, lsbuf, lclosed, lerr, notLogVars>>

\* <-ctx.Done(); pr.Close(): the Write in progress returns io.ErrClosedPipe.
LogCtxDone ==
    /\ mode = "log" /\ cancelled /\ ~lclosed
    /\ lclosed' = TRUE
    /\ lw' = IF lw = "writing" THEN "failed" ELSE lw
    /\ lpend' = ""
    /\ UNCHANGED <<lsrc, lnext, lsbuf, lscan, lerr, notLogVars>>

\* scanner.Scan() reads from the closed pr: the read fails, the bytes left in
\* the buffer are the last token, and the goroutine ends.
LogReadClosed ==
    /\ mode = "log" /\ lscan = "scanning" /\ lclosed
    /\ ~Cut(lsbuf, NL).found /\ Len(lsbuf) < MaxScanTokenSize
    /\ lerr' = IF lsbuf = "" THEN lerr
               ELSE Append(lerr, LogLine(HostName(1), DropCR(lsbuf)))
    /\ lsbuf' = ""
    /\ lscan' = "ended"
    /\ UNCHANGED <<lsrc, lnext, lpend, lw, lclosed, notLogVars>>

LogNext ==
    \/ LogWrite \/ LogRead \/ LogPrint \/ LogTooLong \/ LogCtxDone \/ LogReadClosed
    \/ Cancel

SpecLog == LogInit /\ [][LogNext]_vars

\* ---------------------------------------------------- Exec's encoder

\* What encoder.Encode(result) of worker w hands to w.Write in one call: the
\* JSON document of the result and a newline.
EncodeRecord(w) == "{" \o Itoa(w) \o "}" \o NL

\* Exec with Parallel workers, each with up to two results of runCmd to
\* encode on the one encoder over w.
EncodeInit ==
    /\ mode = "encode"
    /\ spec \in {ValidSpec(p) : p \in 2..MaxParallel}
    /\ stream = <<>> /\ pending = <<>>
    /\ chanClosed = FALSE /\ cancelled = FALSE
    /\ pc = "init" /\ ret = "none" /\ gerr = NoErr /\ out = <<>>
    /\ WorkersIdle /\ LossyIdle /\ SyncIdle /\ ArgvIdle /\ JumpIdle
    /\ RunIdle /\ TimeIdle /\ ReadIdle /\ AgentIdle /\ LogIdle /\ FreqIdle
    /\ eleft \in [1..MaxParallel -> 0..2]
    /\ \A w \in 1..MaxParallel : w > spec.Parallel => eleft[w] = 0
    /\ epc = [w \in 1..MaxParallel |-> IF w <= spec.Parallel THEN "loop" ELSE "off"]
    /\ ebuf = [w \in 1..MaxParallel |-> ""]
    /\ eout = ""

notEncVars ==
    <<mode, spec, stream, pending, chanClosed, cancelled, pc, ret, gerr, out,
      workerVars, lossyVars, syncVars, argvVars, jumpVars, runVars, timeVars,
      readVars, agentVars, logVars, freqVars>>

\* encoder.Encode(result) in the loop of worker w: the record is marshalled
\* into a buffer of the call and w.Write is called with it. Exec takes no
\* lock around the call.
EncodeCall(w) ==
    /\ mode = "encode" /\ epc[w] = "loop" /\ eleft[w] > 0
    /\ epc' = [epc EXCEPT ![w] = "write"]
    /\ ebuf' = [ebuf EXCEPT ![w] = EncodeRecord(w)]
    /\ eleft' = [eleft EXCEPT ![w] = @ - 1]
    /\ UNCHANGED <<eout, notEncVars>>

\* w.Write copies n more bytes of the record of worker w, all that is left
\* or half of it; nothing of the io.Writer interface makes the copy of a
\* whole record one step.
EncodeCopy(w, n) ==
    /\ mode = "encode" /\ epc[w] = "write"
    /\ n \in 1..Len(ebuf[w])
    /\ eout' = eout \o SubSeq(ebuf[w], 1, n)
    /\ ebuf' = [ebuf EXCEPT ![w] = SubSeq(@, n + 1, Len(@))]
    /\ UNCHANGED <<eleft, epc, notEncVars>>

\* w.Write and encoder.Encode return; the worker is back in its loop.
EncodeReturned(w) ==
    /\ mode = "encode" /\ epc[w] = "write" /\ ebuf[w] = ""
    /\ epc' = [epc EXCEPT ![w] = "loop"]
    /\ UNCHANGED <<eleft, ebuf, eout, notEncVars>>

EncodeNext ==
    \E w \in 1..MaxParallel :
        \/ EncodeCall(w)
        \/ \E n \in {Len(ebuf[w]) \div 2, Len(ebuf[w])} : EncodeCopy(w, n)
        \/ EncodeReturned(w)

SpecEncode == EncodeInit /\ [][EncodeNext]_vars

\* ---------------------------------------------------- freq's Read

\* The inputs of Read: up to MaxResults documents, each a Result of ush exec
\* or a document that does not decode (ok is FALSE). The Target of a result
\* is its place in the input. d is the Duration as a number of seconds, which
\* Read never looks at.
FreqInputs ==
    LET docs ==
          {[ok |-> TRUE, Target |-> "", Stdout |-> "x", Stderr |-> "",
            ExitStatus |-> 0, Duration |-> "2s", d |-> 2],
           [ok |-> TRUE, Target |-> "", Stdout |-> "y", Stderr |-> "e",
            ExitStatus |-> 10, Duration |-> "8s", d |-> 8],
           [ok |-> TRUE, Target |-> "", Stdout |-> "x", Stderr |-> "e",
            ExitStatus |-> 9, Duration |-> "1m6s", d |-> 66],
           [ok |-> TRUE, Target |-> "", Stdout |-> "", Stderr |-> "",
            ExitStatus |-> -1, Duration |-> "", d |-> 0],
           [ok |-> FALSE, Target |-> "", Stdout |-> "", Stderr |-> "",
            ExitStatus |-> 0, Duration |-> "", d |-> 0]}
        seqs == UNION {[1..n -> docs] : n \in 0..MaxResults}
    IN  {[i \in 1..Len(q) |-> [q[i] EXCEPT !.Target = Itoa(i)]] : q \in seqs}

\* Stdout, Stderr, ExitStatus or Duration has made its resultsReader and
\* calls rr.Read(r).
FreqInit ==
    /\ mode = "freq"
    /\ spec = ValidSpec(1)
    /\ stream = <<>> /\ pending = <<>>
    /\ chanClosed = FALSE /\ cancelled = FALSE
    /\ pc = "init" /\ ret = "none" /\ gerr = NoErr /\ out = <<>>
    /\ WorkersIdle /\ LossyIdle /\ SyncIdle /\ ArgvIdle /\ JumpIdle
    /\ RunIdle /\ TimeIdle /\ ReadIdle /\ AgentIdle /\ LogIdle /\ EncIdle
    /\ fmode \in {"Stdout", "Stderr", "ExitStatus", "Duration"}
    /\ ftrunc \in {5, 60}
    /\ fin \in FreqInputs
    /\ fpos = 0 /\ ferr = NoErr /\ fm = <<>> /\ fitems = <<>> /\ fpc = "read"

notFreqVars ==
    <<mode, spec, stream, pending, chanClosed, cancelled, pc, ret, gerr, out,
      workerVars, lossyVars, syncVars, argvVars, jumpVars, runVars, timeVars,
      readVars, agentVars, logVars, encVars>>

\* The KeyReader of each function: the text a result is grouped under.
KeyReader(m, truncate, result) ==
    IF m = "Stdout" THEN result.Stdout
    ELSE IF m = "Stderr" THEN result.Stderr
    ELSE IF m = "ExitStatus" THEN Itoa(result.ExitStatus)
    ELSE LET dur == ParseDuration(result.Duration)
         IN  DurationString((dur - (dur % truncate)) + truncate)

\* Less of the sort.Interface of each function, on two items.
Less(m, a, b) ==
    IF m = "Duration" THEN ParseDuration(a.Value) < ParseDuration(b.Value)
    ELSE IF m = "ExitStatus" THEN Atoi(a.Value) < Atoi(b.Value)
    ELSE Len(a.Targets) < Len(b.Targets)

\* A loop body that keeps only the last target of a key.
FreqDecodeLast ==
    /\ mode = "freq" /\ fpc = "read" /\ ferr = NoErr /\ fpos < Len(fin)
    /\ LET result == fin[fpos + 1]
           k == KeyReader(fmode, ftrunc, result)
       IN  IF ~result.ok
             THEN ferr' = "invalid character" /\ UNCHANGED <<fpos, fm>>
             ELSE /\ fpos' = fpos + 1
                  /\ fm' = [key \in DOMAIN fm \cup {k} |->
                               IF key = k THEN <<result.Target>> ELSE fm[key]]
                  /\ UNCHANGED ferr
    /\ UNCHANGED <<fmode, ftrunc, fin, fitems, fpc, notFreqVars>>

\* for dec.More() { ... }: one more document is decoded and its target joins
\* the targets of its key; at a document that does not decode the loop ends
\* with the error.
FreqDecode ==
    /\ mode = "freq" /\ fpc = "read" /\ ferr = NoErr /\ fpos < Len(fin)
    /\ LET result == fin[fpos + 1]
           k == KeyReader(fmode, ftrunc, result)
       IN  IF ~result.ok
             THEN ferr' = "invalid character" /\ UNCHANGED <<fpos, fm>>
             ELSE /\ fpos' = fpos + 1
                  /\ fm' = [key \in DOMAIN fm \cup {k} |->
                               IF key \notin DOMAIN fm THEN <<result.Target>>
                               ELSE IF key = k THEN Append(fm[key], result.Target)
                               ELSE fm[key]]
                  /\ UNCHANGED ferr
    /\ UNCHANGED <<fmode, ftrunc, fin, fitems, fpc, notFreqVars>>

\* After the loop: nil for an empty map; else one item per key, taken from
\* the map in any order, sorted by r.Sorter and returned. sort.Sort leaves
\* the items in an order in which no item is Less than one before it. Freq is
\* in hundredths of a percent.
FreqReturn ==
    /\ mode = "freq" /\ fpc = "read"
    /\ ferr # NoErr \/ fpos = Len(fin)
    /\ fpc' = "returned"
    /\ IF DOMAIN fm = {}
         THEN fitems' = <<>>
         ELSE \E order \in [1..Cardinality(DOMAIN fm) -> DOMAIN fm] :
                LET items == [i \in DOMAIN order |->
                                 [Freq |-> (Len(fm[order[i]]) * 20000 + fpos)
                                              \div (2 * fpos),
                                  Value |-> order[i],
                                  Targets |-> fm[order[i]]]]
                IN  /\ \A i, j \in DOMAIN order : i # j => order[i] # order[j]
                    /\ \A i, j \in DOMAIN order : i < j => ~Less(fmode, items[j], items[i])
                    /\ fitems' = items
    /\ UNCHANGED <<fmode, ftrunc, fin, fpos, ferr, fm, notFreqVars>>

FreqNext == FreqDecode \/ FreqReturn

SpecFreq == FreqInit /\ [][FreqNext]_vars

\* --------------------------------------------------------- specification

Init == ExecInit

ExecNext ==
    \/ ExecStart
    \/ ExecReturn
    \/ \E w \in Workers :
          \/ WorkerDone(w)
          \/ WorkerRecv(w)
          \/ WorkerClosed(w)
          \/ RunStart(w)
          \/ \E code \in {0, 1} : ProcExit(w, code)
          \/ RunWait(w)
          \/ Disarm(w)
          \/ Encode(w)
          \/ WatcherTimeout(w)
          \/ WatcherCancel(w)
          \/ WatcherKill(w)

\* The steps of JumpExec other than its waiters'.
JumpCommonNext ==
    \/ JumpStart
    \/ AgentStart
    \/ AddKey
    \/ ShellStart
    \/ JumpReturn
    \/ \E i \in 1..MaxHosts :
          \/ DispDone(i)
          \/ DispRecv(i)
          \/ DispClosed(i)
          \/ ShellOutput(i)
          \/ \E code \in {0, 1} : ShellExit(i, code)
          \/ ContextKill(i)

JumpNext == JumpCommonNext \/ \E i \in 1..MaxHosts : WaiterReturn(i)

\* JumpExec with each waiter's wait, flush and kill as steps of their own.
JumpStepsNext ==
    \/ JumpCommonNext
    \/ \E i \in 1..MaxHosts : WaiterWait(i) \/ WaiterFlush(i) \/ WaiterKillAgent(i)

Next == ExecNext \/ Cancel \/ CloseInput

Spec == Init /\ [][Next]_vars

\* JumpExec alone.
SpecJump == JumpInit /\ [][JumpNext \/ Cancel \/ CloseInput]_vars

\* JumpExec with one jump host, on the streams of at most MaxTargets targets.
JumpLiveInit ==
    /\ mode = "jump"
    /\ spec \in {ValidJumpSpec(1, key) : key \in {"", "id_rsa"}}
    /\ stream \in {TargetStream(n) : n \in 0..MaxTargets}
    /\ pending = stream
    /\ chanClosed = FALSE
    /\ cancelled = FALSE
    /\ pc = "init"
    /\ ret = "none"
    /\ gerr = NoErr
    /\ out = <<>>
    /\ WorkersIdle /\ LossyIdle /\ SyncIdle /\ ArgvIdle /\ JumpIdle /\ ExtraIdle

\* What the Go scheduler and the operating system see to: JumpExec and each
\* of its goroutines take the step they are able to take, a killed or
\* finished process is noticed, a remote shell answers what it has read and
\* exits at the end of its input, and Read closes the channel. The caller's
\* cancellation and the failure of a remote shell may never happen.
JumpFairness ==
    /\ WF_vars(JumpStart) /\ WF_vars(AgentStart) /\ WF_vars(AddKey)
    /\ WF_vars(ShellStart) /\ WF_vars(JumpReturn) /\ WF_vars(CloseInput)
    /\ \A i \in 1..MaxHosts :
          /\ WF_vars(DispDone(i)) /\ WF_vars(DispRecv(i)) /\ WF_vars(DispClosed(i))
          /\ WF_vars(ShellOutput(i)) /\ WF_vars(ShellExit(i, 0))
          /\ WF_vars(ContextKill(i)) /\ WF_vars(WaiterWait(i))
          /\ WF_vars(WaiterFlush(i)) /\ WF_vars(WaiterKillAgent(i))

\* JumpExec with one jump host, its waiter taken step by step, under fair
\* scheduling.
SpecJumpLive ==
    JumpLiveInit /\ [][JumpStepsNext \/ Cancel \/ CloseInput]_vars /\ JumpFairness

\* What the Go scheduler, the clock and the operating system see to: Exec and
\* each worker take the step they are able to take, a deadline that is set
\* passes, a watcher that decided to kill kills, and Read closes the channel.
\* A child process may never exit by itself, and the caller may never cancel.
ExecFairness ==
    /\ WF_vars(ExecStart) /\ WF_vars(ExecReturn) /\ WF_vars(CloseInput)
    /\ \A w \in Workers :
          /\ WF_vars(WorkerDone(w)) /\ WF_vars(WorkerRecv(w))
          /\ WF_vars(WorkerClosed(w)) /\ WF_vars(RunStart(w))
          /\ WF_vars(RunWait(w)) /\ WF_vars(Disarm(w)) /\ WF_vars(Encode(w))
          /\ WF_vars(WatcherTimeout(w)) /\ WF_vars(WatcherCancel(w))
          /\ WF_vars(WatcherKill(w))

\* Exec under fair scheduling.
SpecExecLive == Init /\ [][Next]_vars /\ ExecFairness

\* Either entry point, as cmd/exec.go calls one or the other, on the streams
\* of at most MaxJumpTargets targets.
EntryInit == (ExecInit \/ JumpInit) /\ Len(stream) <= MaxJumpTargets

SpecEntry == EntryInit /\ [][Next \/ JumpNext]_vars

\* ------------------------------------------------------------- the claims

\* The targets in flight: received by a worker, their record not yet written.
InFlight == {w \in Workers : cur[w] # None}

\* The target fields of the records written to out, in order.
OutTargets == [i \in 1..Len(out) |-> out[i].target]

C2_BoundedInFlight ==
    (mode = "exec" /\ SpecValidate(spec) = NoErr) =>
        /\ Cardinality({w \in Workers : proc[w] = "running"}) <= spec.Parallel
        /\ \A w \in Workers : wpc[w] \in {"off", "select", "returned"} => cur[w] = None
        /\ Len(Received) - Len(out) = Cardinality(InFlight)
        /\ Cardinality(InFlight) <= spec.Parallel

\* C2 witness: Parallel = 2 and two target processes run at once.
C2_Witness ==
    /\ mode = "exec" /\ spec.Parallel = 2
    /\ Cardinality({w \in Workers : proc[w] = "running"}) = 2

\* C4: the Buffer holds the first min(total, Limit) bytes written, then
\* "[...]" if and only if total >= Limit, so never more than Limit + 5 bytes,
\* and every Write returns the length of its slice.
C4_LossyPrefixAndMarker ==
    mode = "lossy" =>
        LET total == Len(lwIn)
        IN  /\ lwBuf = SubSeq(lwIn, 1, Min(total, lwLimit))
                          \o (IF total >= lwLimit THEN "[...]" ELSE "")
            /\ Len(lwBuf) <= lwLimit + 5
            /\ lwRet = lwLast

\* C4 witness: the last Write straddled the limit: the Buffer was below
\* Limit before it and the input is beyond Limit after it.
C4_Witness ==
    /\ mode = "lossy"
    /\ lwLast > 1
    /\ Len(lwIn) - lwLast < lwLimit
    /\ Len(lwIn) > lwLimit
    /\ Len(lwIn) - lwLast > 0

\* Sink k has been given whole records only: nothing, or bytes that end
\* with a newline.
WholeRecords(k) == sin[k] = <<>> \/ sin[k][Len(sin[k])].c = NL

\* C5 (as claimed): when the sinks are given newline-terminated records, a
\* byte of a line on the shared Writer is followed by the next byte of the
\* same sink's line or by its newline, never by a byte of another sink.
C5_LinesAtomic ==
    (mode = "sync" /\ \A k \in Sinks : WholeRecords(k)) =>
        \A i \in 1..(Len(out) - 1) :
            out[i].c # NL => out[i + 1].s = out[i].s

\* The argv the claim gives for the i-th jump host.
ClaimedArgv(i) ==
    Tokens(tmpl, spec.JumpHosts[i])
        \o << "--", "ush", "exec",
              "--timeout=" \o TimeoutText[spec.Timeout],
              "--parallel=" \o Itoa(Max(1, spec.Parallel \div Len(spec.JumpHosts))),
              "--stdout_bytes=" \o BytesText[spec.StdoutBytes],
              "--stderr_bytes=" \o BytesText[spec.StderrBytes],
              "--", spec.Command >>
        \o spec.Args

\* C6: the argv of every jump host is the tokens of JumpCommand with the host
\* in the place of each {.J}, then the nested invocation in the claimed
\* order, then Command and Args as given, {.T} untouched.
C6_JumpArgv ==
    mode = "argv" =>
        \A i \in 1..MaxHosts : argv[i] # <<>> => argv[i] = ClaimedArgv(i)

\* C6 witness: the argv of a second jump host is built from a command with
\* two {.J}, for a Command that holds {.T}.
C6_Witness ==
    /\ mode = "argv"
    /\ tmpl = << <<"ssh">>, <<"u@", Hole>>, <<Hole>> >>
    /\ spec.Command = "e{.T}"
    /\ argv[2] # <<>>
    /\ argv[2][2] = "u@" \o spec.JumpHosts[2]

\* C7: the parallelism passed is max(1, floor(Parallel / |JumpHosts|)): at
\* least 1; when Parallel >= |JumpHosts| it is the quotient, and the hosts
\* together get at most Parallel; otherwise it is 1 and they get |JumpHosts|.
C7_Parallelism ==
    (mode = "argv" /\ pc = "setup") =>
        LET n == Len(spec.JumpHosts)
            P == spec.Parallel
        IN  /\ parallel >= 1
            /\ P >= n => /\ parallel * n <= P
                         /\ (parallel + 1) * n > P
            /\ P < n => /\ parallel = 1
                        /\ parallel * n = n
            /\ \A i \in 1..n :
                  argv[i] # <<>> =>
                      argv[i][Len(tmpl) + 5] = "--parallel=" \o Itoa(parallel)

\* C7 witness: more jump hosts than Parallel, and the argv of the last host
\* is built.
C7_Witness ==
    /\ mode = "argv" /\ pc = "setup"
    /\ spec.Parallel < Len(spec.JumpHosts)
    /\ argv[Len(spec.JumpHosts)] # <<>>

\* The error the claim gives for a Spec.
ClaimedSpecError(s) ==
    IF s.Command = "" THEN ErrNoCommand
    ELSE IF s.Timeout <= 0 THEN ErrNoTimeout
    ELSE IF s.Parallel <= 0 THEN ErrNoParallel
    ELSE IF s.StdoutBytes <= 0 THEN ErrNoStdoutBytes
    ELSE IF s.StderrBytes <= 0 THEN ErrNoStderrBytes
    ELSE NoErr

\* C8: Spec.Validate returns the error of the first unmet requirement in the
\* order Command, Timeout, Parallel, StdoutBytes, StderrBytes; JumpSpec.Validate
\* returns the Spec's error if any, else that of JumpCommand, else JumpHosts.
C8_ValidateOrder ==
    /\ (mode = "validate" /\ pc = "Spec.Validate") =>
          ret = ClaimedSpecError(spec)
    /\ (mode = "validate" /\ pc = "JumpSpec.Validate") =>
          ret = IF ClaimedSpecError(spec) # NoErr THEN ClaimedSpecError(spec)
                ELSE IF spec.JumpCommand = "" THEN ErrNoJumpCommand
                ELSE IF spec.JumpHosts = <<>> THEN ErrNoJumpHosts
                ELSE NoErr

\* C8 witness: a Spec with neither byte limit was validated and
\* ErrNoStdoutBytes returned.
C8_Witness ==
    /\ mode = "validate" /\ pc = "Spec.Validate"
    /\ spec.StdoutBytes <= 0 /\ spec.StderrBytes <= 0
    /\ ret = ErrNoStdoutBytes

\* The error of the validation the entry point of the run starts with.
ValidationError ==
    IF mode = "exec" THEN SpecValidate(spec) ELSE JumpSpecValidate(spec)

\* C9: when the validation of the spec fails, Exec and JumpExec return that
\* error and nothing else happens: no worker, child process, watcher, agent,
\* remote shell, dispatcher or waiter is ever started, no target is received
\* from the channel and nothing is written to out.
C9_ValidationFailureNoEffects ==
    ValidationError # NoErr =>
        /\ pc \in {"init", "returned"}
        /\ pc = "returned" => ret = ValidationError
        /\ \A w \in Workers :
              wpc[w] = "off" /\ proc[w] = "none" /\ watcher[w] = "none"
        /\ \A i \in 1..MaxHosts :
              /\ agent[i] = "none" /\ shell[i] = "none" /\ copier[i] = "off"
              /\ disp[i] = "off" /\ waiter[i] = "off"
        /\ pending = stream
        /\ out = <<>>

\* C9 witness: Exec has returned ErrNoCommand while a target waits in the
\* channel.
C9_Witness ==
    /\ mode = "exec" /\ pc = "returned"
    /\ ret = ErrNoCommand
    /\ pending # <<>> /\ ~chanClosed

\* C3 (as claimed): once the deadline of a target has passed and its watcher
\* has acted, the child process is not left running: if it had not exited it
\* was sent SIGKILL.
C3_KilledAtDeadline ==
    \A w \in Workers :
        (mode = "exec" /\ ~cancelled /\ watcher[w] = "done") => proc[w] # "running"

\* C10 (as claimed): Exec returns after all workers, with the cancellation
\* error if the scope tripped before it returned, and nil only otherwise.
C10_CancelErrorIfTripped ==
    (mode = "exec" /\ pc = "returned" /\ SpecValidate(spec) = NoErr) =>
        /\ \A w \in Workers : wpc[w] \in {"off", "returned"}
        /\ cancelled => ret = ErrCanceled
        /\ ret = NoErr => ~cancelled

\* C10 (amended): Exec returns after all workers; it returns the cancellation
\* error only if the scope tripped before it returned, nil whenever the scope
\* did not trip, and nil only if the input channel was closed.
C10_ReturnAfterWorkers ==
    (mode = "exec" /\ pc = "returned" /\ SpecValidate(spec) = NoErr) =>
        /\ \A w \in Workers : wpc[w] \in {"off", "returned"}
        /\ ret \in {NoErr, ErrCanceled}
        /\ ret = ErrCanceled => cancelled
        /\ ~cancelled => ret = NoErr
        /\ ret = NoErr => chanClosed

\* C10 witness: the scope tripped and Exec returned the cancellation error
\* after both of its workers had returned.
C10_Witness ==
    /\ mode = "exec" /\ pc = "returned" /\ spec.Parallel = 2
    /\ cancelled /\ ret = ErrCanceled

\* C11 (as claimed): when the caller's scope trips while the dispatchers and
\* waiters run, JumpExec returns the cancellation error, not the exit error
\* of a remote shell that was killed for the cancellation.
C11_CancelErrorVerbatim ==
    (mode = "jump" /\ pc = "returned" /\ hi > Len(spec.JumpHosts) /\ cancelled)
        => ret # WaitResult("killed").err

\* C12: a target that cannot be started, exits non-zero or is killed at its
\* deadline gets a Result and gives Exec no error: while the caller's scope
\* has not tripped no worker has returned an error, so the scope of the
\* siblings is not done, and Exec returns nil with one record per target.
C12_FailuresAreResults ==
    (mode = "exec" /\ ~cancelled) =>
        /\ gerr = NoErr
        /\ pc = "running" => ~GroupDone
        /\ (pc = "returned" /\ SpecValidate(spec) = NoErr) =>
              /\ ret = NoErr
              /\ Len(out) = Len(stream)

\* C12 witness: Exec returned nil after a target was killed and another could
\* not be started.
C12_Witness ==
    /\ mode = "exec" /\ pc = "returned" /\ ~cancelled /\ ret = NoErr
    /\ \E i, j \in 1..Len(out) :
          /\ out[i].err = "signal: killed"
          /\ out[j].err = "spawn failed"

\* C13 (as claimed): the argv of the child is Command as it is written, then
\* each of Args with the target in the place of every {.T}.
C13_CommandVerbatim ==
    (mode = "runargv" /\ pc = "command") =>
        rargv = <<spec.Command>> \o Tokens(Tail(tmpl), rtarget)

\* C13 (amended): the argv of the child is Command, then each of Args, all
\* with the target in the place of every {.T}.
C13_CommandAndArgsTemplated ==
    (mode = "runargv" /\ pc = "command") => rargv = Tokens(tmpl, rtarget)

\* C13 witness: the argv is built for a command name that holds {.T}.
C13_Witness ==
    /\ mode = "runargv" /\ pc = "command"
    /\ spec.Command = "e{.T}" /\ rtarget = "h1"
    /\ rargv = <<"eh1">>

\* C14: the Result of a run has an empty error and exit status 0 exactly when
\* the process was started and exited with 0; a process that could not be
\* started gives an error and status 0, one that exited non-zero gives an
\* error and that status, one that was killed gives an error; and the record
\* written for the target carries that error and status.
C14_ResultOfRun ==
    [][\A w \in Workers :
          /\ (wpc[w] = "run" /\ wpc'[w] = "ran") =>
                res'[w].err # "" /\ res'[w].status = 0
          /\ (wpc[w] = "wait" /\ wpc'[w] = "ran") =>
                /\ proc[w] = "exit0" => res'[w] = [err |-> "", status |-> 0]
                /\ proc[w] = "exit1" => res'[w].err # "" /\ res'[w].status = 1
                /\ proc[w] = "killed" => res'[w].err # ""
                /\ (res'[w].err = "" /\ res'[w].status = 0) <=> proc[w] = "exit0"
          /\ (wpc[w] = "encode" /\ wpc'[w] = "select") =>
                /\ Len(out') = Len(out) + 1
                /\ out'[Len(out')].err = res[w].err
                /\ out'[Len(out')].status = res[w].status
      ]_vars

\* C14 witness: runCmd has the Result of a process that exited with 1.
C14_Witness ==
    \E w \in Workers :
        /\ mode = "exec" /\ wpc[w] = "ran" /\ proc[w] = "reaped"
        /\ res[w] = [err |-> "exit status 1", status |-> 1]

\* C15 (as claimed): when JumpExec has returned an error of the setup of a
\* jump host, no agent and no remote shell it started is still running.
C15_SetupErrorCleansUp ==
    (mode = "jump" /\ pc = "returned" /\ hi \in JumpHostIds) =>
        \A i \in JumpHostIds : agent[i] # "running" /\ shell[i] # "running"

\* C16 (as claimed): once the caller's scope has tripped, JumpExec returns
\* and every dispatcher and every waiter it started has returned.
C16_CancelUnblocksAll ==
    (mode = "jump" /\ cancelled) ~>
        /\ pc = "returned"
        /\ \A i \in 1..MaxHosts :
              disp[i] \in {"off", "returned"} /\ waiter[i] \in {"off", "returned"}

\* C17 (as claimed): once the caller's scope has tripped, a child process
\* that is running, started before or after the trip, has its kill on the
\* way: its watcher has yet to wake or is about to send SIGKILL.
C17_CancelKillsChildren ==
    \A w \in Workers :
        (mode = "exec" /\ cancelled /\ proc[w] = "running")
            => watcher[w] \in {"wait", "kill"}

\* What a target's delivery must look like on an intermediary's stdin: the
\* target's text followed by exactly one newline.
ClaimedLine(t) == Itoa(t) \o "\n"

\* The completed or pending pipe writes that carry target t: <<host, k>> is
\* the k-th completed write of the host's dispatcher, <<host, 0>> its write
\* in progress.
Deliveries(t) ==
    {<<i, k>> \in JumpHostIds \X (1..Len(stream)) :
        k <= Len(wrote[i]) /\ wrote[i][k] = ClaimedLine(t)}
    \cup {<<i, 0>> : i \in {h \in JumpHostIds : dcur[h] = t}}

\* C18: every target a dispatcher received from the shared channel is written,
\* as its text and exactly one newline, into the stdin pipe of exactly one
\* intermediary: no target is written twice or to two intermediaries, none is
\* dropped, and nothing else is written. With no stdin write failed, no write
\* is left pending, so every received target is a completed write.
C18_EachTargetToOnePipe ==
    mode = "jump" =>
        /\ \A k \in 1..Len(Received) : Cardinality(Deliveries(Received[k])) = 1
        /\ \A i \in JumpHostIds : \A k \in 1..Len(wrote[i]) :
               \E j \in 1..Len(Received) : wrote[i][k] = ClaimedLine(Received[j])
        /\ (\A i \in JumpHostIds : disp[i] # "write") =>
               \A k \in 1..Len(Received) :
                   \E i \in JumpHostIds : Count(wrote[i], ClaimedLine(Received[k])) = 1

\* The second of two intermediaries took the target while the scope was live
\* and the first one's dispatcher was waiting on the same channel.
C18_Witness ==
    /\ mode = "jump" /\ ~cancelled
    /\ Len(spec.JumpHosts) = 2
    /\ disp[1] = "select"
    /\ Len(Received) = 1
    /\ wrote[2] = <<ClaimedLine(Received[1])>>
    /\ inbox[2] = wrote[2]

InputLines(in) ==
    LET parts == Split(in, NL)
    IN  IF parts[Len(parts)] = "" THEN SubSeq(parts, 1, Len(parts) - 1) ELSE parts

\* The lines Read is to deliver: those that are not empty, do not start with
\* '#' and are not in the exclusion set, in input order.
ClaimedDelivery(in, excl) ==
    LET Keep(l) == l # "" /\ SubSeq(l, 1, 1) # "#" /\ l \notin excl
    IN  SelectSeq(InputLines(in), Keep)

\* C20: while ctx is not cancelled, what Read's channel has delivered is a
\* prefix of the input's lines that are non-empty, do not start with '#' and
\* are not excluded, in order and each once, and when the channel is closed
\* every one of them has been delivered.
C20_ReadDeliversFiltered ==
    (mode = "read" /\ ~cancelled) =>
        LET want == ClaimedDelivery(rin, rexcl)
        IN  /\ Len(rdeliv) <= Len(want)
            /\ rdeliv = SubSeq(want, 1, Len(rdeliv))
            /\ chanClosed => rdeliv = want

\* The bytes of sink k that the underlying writer has received, in order.
Underlying(k) == SelectSeq(out, LAMBDA e : e.s = k)

\* C21: once a sink has been flushed after its writes, the underlying writer
\* has received from it exactly the bytes written to it, in order, nothing
\* lost or duplicated, newlines and writes beginning with a newline included.
C21_FlushedEqualsWritten ==
    \A k \in Sinks :
        (mode = "sync" /\ spc[k] = "flushed") => Underlying(k) = sin[k]

\* C23: the watcher's SIGKILL is delivered only while the child has not been
\* waited for: no step in which a watcher sends the kill starts with the
\* process already reaped by runCmd.
C23_NoKillAfterReap ==
    [][\A w \in Workers :
          (watcher[w] = "kill" /\ watcher'[w] = "done") => proc[w] # "reaped"]_vars

PipeOpened(i) == argv[i] # <<>>

\* C25: every stdin pipe that JumpExec opened is closed on every exit path;
\* in the form a finite run can refute: once JumpExec has returned, every
\* pipe it opened is closed, or has a dispatcher, the only code that closes
\* it, still at work.
C25_OpenedPipeIsClosed ==
    (mode = "jump" /\ pc = "returned") =>
        \A i \in JumpHostIds : PipeOpened(i) => disp[i] # "off"

\* The errors JumpExec returns from its loop, before any waiting.
SetupErrors == {ErrNoCommand, ErrNoTimeout, ErrNoParallel, ErrNoStdoutBytes,
                ErrNoStderrBytes, ErrNoJumpCommand, ErrNoJumpHosts,
                "ssh-agent failed", "ssh-agent terminated", "ssh-add failed",
                "start failed"}

\* A normal run so far: the scope is not cancelled, the setup has not
\* failed, and no remote shell has failed or been killed.
NormalRun ==
    /\ mode = "jump" /\ ~cancelled
    /\ ret \notin SetupErrors
    /\ \A i \in 1..MaxHosts : shell[i] \notin {"exit1", "killed"}

\* C26: a run of JumpExec that stays normal, with the channel closed in the
\* end and every shell exiting 0 at the end of its stdin, comes to the point
\* where every dispatcher has closed its pipe and returned, every waiter has
\* returned, and JumpExec has returned nil.
C26_NormalRunReturnsNil ==
    []NormalRun =>
        <>(/\ pc = "returned" /\ ret = NoErr
           /\ \A i \in JumpHostIds :
                 /\ disp[i] = "returned" /\ copier[i] = "done"
                 /\ waiter[i] = "returned")

\* JumpExec has returned nil from a run that took every target, answered
\* them all, and was never cancelled.
C26_Witness ==
    /\ mode = "jump" /\ ~cancelled
    /\ pc = "returned" /\ ret = NoErr
    /\ Len(stream) = MaxTargets /\ pending = <<>> /\ chanClosed
    /\ Len(wrote[1]) = MaxTargets
    /\ disp[1] = "returned" /\ copier[1] = "done" /\ waiter[1] = "returned"

\* C27: when the spec is valid (so Timeout > 0) and the scope is never
\* cancelled, with the channel closed in the end and whatever the children
\* do, Exec comes to return nil with every worker returned and the result of
\* every received target written.
C27_ExecReturnsNil ==
    (mode = "exec" /\ SpecValidate(spec) = NoErr /\ []~cancelled) =>
        <>(/\ pc = "returned" /\ ret = NoErr
           /\ \A w \in Workers : wpc[w] \in {"off", "returned"}
           /\ Len(out) = Len(Received))

\* The first line of what the parser has accumulated, when it is complete.
FirstLine == Cut(abuf, NL)

\* The text between '=' and ';' on the first line.
HandshakePath == Cut(Cut(FirstLine.before, "=").after, ";").before

\* What sshAgent returns: a handle comes with a nil error and with the path
\* the parser sent, which is on the complete first line, is not empty and
\* names an existing entry; an error comes with no handle and no path.
AgentResultSound ==
    apc = "returned" =>
        /\ aret.cmd <=> aret.err = NoErr
        /\ aret.err = NoErr =>
              /\ asent = 1 /\ FirstLine.found /\ aret.sock = HandshakePath
              /\ aret.sock # "" /\ aret.sock \in ExistingPaths
        /\ aret.err # NoErr => aret.sock = ""

\* Once the agent has ended with no handshake sent, sshAgent returns nothing
\* but an error.
AgentExitIsError ==
    [](aproc \in {"exited", "killed"} /\ asent = 0
         => [](apc = "returned" => aret.err # NoErr))

WellFormed(line) ==
    LET parts == Cut(line, "=")
    IN  parts.found /\ parts.before = "SSH_AUTH_SOCK"

\* C28: the parser never crashes; it sends a socket path only when the first
\* line splits on '=' into the key SSH_AUTH_SOCK and a value; and with any
\* other complete first line it has sent nothing and its Write returned an
\* error.
C28_FirstLineChecked ==
    /\ acopy # "panic"
    /\ asent > 0 => WellFormed(FirstLine.before)
    /\ FirstLine.found /\ ~WellFormed(FirstLine.before)
          => asent = 0 /\ awret.err # NoErr

\* C29: a socket path is sent at most once, only with a complete first line
\* in the buffer and only if the path on that line exists; a Write never
\* blocks on the handshake channel; and every Write after the path was sent
\* returns the full length and no error and leaves the buffer, the channel
\* and the parser as they were.
C29_SentOnceThenIgnored ==
    /\ [](/\ asent <= 1 /\ acopy # "blocked"
          /\ asent = 1 => /\ adone /\ FirstLine.found
                          /\ HandshakePath \in ExistingPaths)
    /\ [][asent = 1 /\ ain' # ain
            => /\ awret' = [n |-> Len(Head(ain)), err |-> NoErr]
               /\ abuf' = abuf /\ achan' = achan /\ asent' = asent
               /\ adone' /\ acopy' = acopy]_vars

\* The path of the complete first line was sent once, and the write of the
\* second line was accepted in full and ignored.
C29_Witness ==
    /\ mode = "agent" /\ asent = 1 /\ adone /\ ain = <<>>
    /\ abuf = "SSH_AUTH_SOCK=/s; export" \o NL
    /\ awret = [n |-> Len("echo pid;" \o NL), err |-> NoErr]
    /\ acopy = "copying"

\* C30: unless the scope is cancelled, once the parser's Write has returned
\* the malformed-handshake or the socket-not-found error, sshAgent comes to
\* return that error.
C30_HandshakeErrorReturned ==
    <>cancelled \/
    [](awret.err # NoErr => <>(apc = "returned" /\ aret.err = awret.err))

RECURSIVE StderrText(_)
\* The bytes of the Writes, one after the other.
StderrText(ws) == IF ws = <<>> THEN "" ELSE Head(ws) \o StderrText(Tail(ws))

RECURSIVE TaggedLines(_, _)
\* The lines of text, each after the identifier of the jump host.
TaggedLines(jumphost, text) ==
    IF text = "" THEN <<>>
    ELSE <<jumphost \o ": " \o Cut(text, NL).before>>
            \o TaggedLines(jumphost, Cut(text, NL).after)

\* C31: what is printed is, in order, the lines of the process's stderr, each
\* after the identifier of the jump host, all of them once every byte is
\* written and scanned; and when a line did not fit the scanner's buffer, the
\* read side of the pipe is closed and no Write is left waiting in the pipe.
C31_LinesTaggedOverlongClosed ==
    LET claimed == TaggedLines(HostName(1), StderrText(lsrc))
    IN  /\ lscan \in {"scanning", "toolong"}
            => /\ Len(lerr) <= Len(claimed)
               /\ lerr = SubSeq(claimed, 1, Len(lerr))
        /\ lscan = "scanning" /\ lnext > Len(lsrc) /\ lw = "idle" /\ lsbuf = ""
            => lerr = claimed
        /\ lscan = "toolong" => lclosed /\ lw # "writing"

\* C32: unless the caller cancels the run, once the remote shell of a jump
\* host has exited with an error, JumpExec returns an error, with no remote
\* shell left running and every dispatcher returned.
C32_ShellErrorEndsRun ==
    <>cancelled \/
    ((mode = "jump" /\ \E i \in JumpHostIds : shell[i] = "exit1") ~>
        /\ pc = "returned" /\ ret # NoErr
        /\ \A j \in JumpHostIds : shell[j] # "running" /\ disp[j] = "returned")

\* The lines of the bytes that reached w, the unfinished last one left out.
WrittenLines == SubSeq(Split(eout, NL), 1, Len(Split(eout, NL)) - 1)

\* C33: no two workers of Exec are inside the Write of the shared sink at
\* the same time, and every line that reached the sink is the record of one
\* worker.
C33_OneWriterAtATime ==
    /\ Cardinality({w \in 1..MaxParallel : epc[w] = "write"}) <= 1
    /\ \A k \in 1..Len(WrittenLines) :
          \E w \in 1..MaxParallel :
              WrittenLines[k] \o NL = "{" \o Itoa(w) \o "}" \o NL

\* The results Read decoded, in input order.
Decoded == SubSeq(fin, 1, fpos)

\* The key of a result as the claim names it: the output text, the numeric
\* exit status, or the duration bucket in seconds.
ClaimedKey(r) ==
    IF fmode = "Stdout" THEN r.Stdout
    ELSE IF fmode = "Stderr" THEN r.Stderr
    ELSE IF fmode = "ExitStatus" THEN r.ExitStatus
    ELSE (r.d - (r.d % ftrunc)) + ftrunc

\* The targets of the decoded results with key kv, in input order.
TargetsOf(kv) ==
    LET Same(r) == ClaimedKey(r) = kv
        sel == SelectSeq(Decoded, Same)
    IN  [i \in 1..Len(sel) |-> sel[i].Target]

\* The key of the results an item holds.
ItemKey(item) ==
    ClaimedKey(Decoded[CHOOSE i \in 1..fpos : Decoded[i].Target = item.Targets[1]])

\* What the items are ordered by: the number of targets for Stdout and
\* Stderr, else the numeric key.
SortKey(item) ==
    IF fmode \in {"Stdout", "Stderr"} THEN Len(item.Targets) ELSE ItemKey(item)

\* C34: the items Read returns partition the decoded results by key: each
\* item holds the targets of all decoded results of one key in input order,
\* each decoded result's target is in exactly one item, the items' target
\* counts add up to the number of decoded results, and the items are in
\* ascending order of the mode's sort key.
C34_ItemsPartitionSorted ==
    (mode = "freq" /\ fpc = "returned") =>
        /\ \A j \in 1..Len(fitems) :
              /\ fitems[j].Targets # <<>>
              /\ fitems[j].Targets = TargetsOf(ItemKey(fitems[j]))
        /\ \A i \in 1..fpos :
              Cardinality({j \in 1..Len(fitems) :
                              \E n \in 1..Len(fitems[j].Targets) :
                                  fitems[j].Targets[n] = Decoded[i].Target}) = 1
        /\ Cardinality(UNION {{<<j, n>> : n \in 1..Len(fitems[j].Targets)} :
                                 j \in 1..Len(fitems)}) = fpos
        /\ \A a, b \in 1..Len(fitems) :
              a < b => SortKey(fitems[a]) <= SortKey(fitems[b])

\* Read in ExitStatus mode has returned two items for the statuses 10, 9, 10:
\* status 9 with the second target first, then status 10 with the first and
\* third targets.
C34_Witness ==
    /\ mode = "freq" /\ fpc = "returned" /\ fmode = "ExitStatus"
    /\ ferr = NoErr /\ fpos = 3
    /\ Len(fitems) = 2
    /\ fitems[1].Value = "9" /\ fitems[1].Targets = <<"2">>
    /\ fitems[2].Value = "10" /\ fitems[2].Targets = <<"1", "3">>

====
